---- MODULE Spec2Model ----
(***************************************************************************)
(* The fixpoint driver of the taint-type inference engine for LLVM IR      *)
(* (src/src/taint_state.rs).  The analysed IR is an input: a small         *)
(* catalogue of programs, each a sequence of functions made of basic       *)
(* blocks of instructions and a terminator.  The engine's state is the     *)
(* worklist, the per-function taint maps and tainted-terminator sets, the  *)
(* function summaries, the shared pointee cells and the position of the    *)
(* driver inside compute().                                                *)
(*                                                                         *)
(* The transfer functions are operators on a record S of the whole engine  *)
(* state, so that a pass can be replayed by the operators that state the   *)
(* re-analysis and order-independence properties.  A transfer function     *)
(* that runs several calls in sequence is written as a chain of operators, *)
(* each handing its result to the operator for the rest of the function.   *)
(***************************************************************************)
EXTENDS Integers, Sequences, FiniteSets, TLC

VARIABLES
    input,                \* the modules, seeds and configuration (never changes)
    worklist,             \* TaintState.worklist: set of function names
    taint_map,            \* fn_taint_states: function -> (variable -> TaintedType)
    tainted_terminators,  \* fn_taint_states: function -> set of block names
    fn_summaries,         \* function -> [params, ret]
    cells,                \* the pointee cells: sequence of pointee types
    iter_ctr,             \* compute()'s local counter
    cur_fn,               \* TaintState.cur_fn
    cur_block,            \* index of TaintState.cur_block in the function
    pc,                   \* index of the next instruction of cur_block
    changed,              \* the `changed` flag of the pass / of the pop
    popped,               \* the name compute() popped last (fn_name)
    phase,                \* "loop" | "pass" | "endpop" | "done" | "panic"
    diag,                 \* the diagnostic of a panic ("" when none)
    streak,               \* history: [fn, n] changed pops in a row of one name
    upgrades,             \* history: slot -> its strict upgrades so far
    handled               \* history: the names popped since they have a summary

vars == <<input, worklist, taint_map, tainted_terminators, fn_summaries, cells,
          iter_ctr, cur_fn, cur_block, pc, changed, popped, phase, diag, streak,
          upgrades, handled>>

(***************************************************************************)
(* Bounds and program constants                                            *)
(***************************************************************************)
\* at most this many variables of the start function are seeded tainted
MaxSeeded == 2
\* compute(): `if iter_ctr >= 8 { panic!("Infinite analysis") }`
InfiniteAnalysisLimit == 8

(***************************************************************************)
(* Small helpers on finite maps and sequences                              *)
(***************************************************************************)
EmptyMap == [x \in {} |-> x]
Put(m, k, v) == [x \in (DOMAIN m) \cup {k} |-> IF x = k THEN v ELSE m[x]]
Range(s) == {s[i] : i \in DOMAIN s}

(***************************************************************************)
(* The IR (llvm_ir's Module / Function / BasicBlock / Instruction).        *)
(* Operands are variable names; K is an integer constant operand.          *)
(* LLVM types: "i" a scalar, "p" a pointer to a scalar, "void".            *)
(***************************************************************************)
K == "#"
\* what a Call names instead of a function: an inline assembly block, or a
\* global with a numbered (nameless) name
InlineAsm == "<asm>"
Numbered == "%0"
Ins(op, dst, ops) ==
    [op |-> op, dst |-> dst, ops |-> ops, ty |-> "i", callee |-> "", preds |-> <<>>]
\* ty: the LLVM type of the result (of the call); an alloca allocates a scalar
Alloca(dst, count) == [Ins("alloca", dst, <<count>>) EXCEPT !.ty = "p"]
OfType(ins, ty) == [ins EXCEPT !.ty = ty]
Call(dst, callee, args, retty) ==
    [Ins("call", dst, args) EXCEPT !.callee = callee, !.ty = retty]
\* a call through a function pointer; only the pointer's type (the types of
\* the arguments and of the result) matters to the engine
ICall(dst, args, retty) == [Ins("icall", dst, args) EXCEPT !.ty = retty]
Phi(dst, ops, preds) == [Ins("phi", dst, ops) EXCEPT !.preds = preds]
Term(op, ops) == [op |-> op, ops |-> ops]
Block(name, instrs, term) == [name |-> name, instrs |-> instrs, term |-> term]
Param(n, ty) == [n |-> n, ty |-> ty]
\* cdg: block name -> the blocks it is control-dependent on
Fn(name, params, ret, blocks, cdg) ==
    [name |-> name, params |-> params, ret |-> ret, blocks |-> blocks, cdg |-> cdg]
NoDeps(blocks) == [b \in {blocks[i].name : i \in DOMAIN blocks} |-> {}]
Straight(name, params, ret, instrs, term) ==
    LET bs == <<Block("entry", instrs, term)>>
    IN  Fn(name, params, ret, bs, NoDeps(bs))

(***************************************************************************)
(* The analysed programs.  Each names its start function (the function     *)
(* whose variables the caller of the analysis seeds), the variables that   *)
(* may be seeded, and the configurations worth distinguishing for it.      *)
(***************************************************************************)
Policies == {"IgnoreAndReturnUntainted", "IgnoreAndReturnTainted",
             "PropagateTaintShallow", "PropagateTaintDeep", "Panic"}
OnePolicy == {"PropagateTaintShallow"}
Prog(fns, seedable, policies, derefs) ==
    [fns |-> fns, start |-> fns[1].name, seedable |-> seedable,
     policies |-> policies, derefs |-> derefs]

\* %y = add i32 %x, 1 ; ret i32 %y
FnDirect == Straight("f", <<Param("x", "i")>>, "i",
                <<Ins("bin", "y", <<"x", K>>)>>, Term("ret", <<"y">>))
\* %p = alloca ; %r0 = load %p ; store %x, %p ; %r = load %p ; ret %r
FnMem == Straight("f", <<Param("x", "i")>>, "i",
                <<Alloca("p", K), Ins("load", "r0", <<"p">>),
                  Ins("store", "", <<"x", "p">>), Ins("load", "r", <<"p">>)>>,
                Term("ret", <<"r">>))
\* f passes %t to g and returns the result; g returns (a cast of) its argument
FnCallG == Straight("f", <<Param("t", "i")>>, "i",
                <<Call("r", "g", <<"t">>, "i")>>, Term("ret", <<"r">>))
FnRetArg == Straight("g", <<Param("a", "i")>>, "i",
                <<Ins("un", "b", <<"a">>)>>, Term("ret", <<"b">>))
\* f calls the external h(i32 %t, i32 %u) and uses the result
FnCallExt == Straight("f", <<Param("t", "i"), Param("u", "i")>>, "i",
                <<Call("r", "h", <<"t", "u">>, "i"), Ins("icmp", "z", <<"r", K>>)>>,
                Term("ret", <<"z">>))
\* two allocas unified by a select; store through the select, load through one
FnSelect == Straight("f", <<Param("c", "i"), Param("t", "i")>>, "i",
                <<Alloca("p1", K), Alloca("p2", K),
                  OfType(Ins("select", "s", <<"c", "p1", "p2">>), "p"),
                  Ins("store", "", <<"t", "s">>), Ins("load", "r", <<"p1">>)>>,
                Term("ret", <<"r">>))
\* f hands its alloca to g, which stores its second argument through it
FnShareF == Straight("f", <<Param("t", "i")>>, "i",
                <<Alloca("p", K), Call("", "g", <<"p", "t">>, "void"),
                  Ins("load", "r", <<"p">>)>>, Term("ret", <<"r">>))
FnShareG == Straight("g", <<Param("q", "p"), Param("v", "i")>>, "void",
                <<Ins("store", "", <<"v", "q">>)>>, Term("ret", <<>>))
\* A: br %c, B, C ; B: br D ; C: br D ; D: %ph = phi [%b, B], [1, C] ; br E ;
\* E: %pe = phi [%b, D] ; ret %ph
FnPhi == Fn("f", <<Param("c", "i"), Param("b", "i")>>, "i",
            <<Block("A", <<>>, Term("condbr", <<"c">>)),
              Block("B", <<>>, Term("br", <<>>)),
              Block("C", <<>>, Term("br", <<>>)),
              Block("D", <<Phi("ph", <<"b", K>>, <<"B", "C">>)>>, Term("br", <<>>)),
              Block("E", <<Phi("pe", <<"b">>, <<"D">>)>>, Term("ret", <<"ph">>))>>,
            [b \in {"A", "B", "C", "D", "E"} |-> IF b \in {"B", "C"} THEN {"A"} ELSE {}])
\* a loop whose header's Phi comes before the branch it depends on:
\* A: br H ; H: %ph = phi [%b, A], [1, L] ; br %c, L, X ; L: br H ; X: ret %ph
FnLoopPhi == Fn("f", <<Param("c", "i"), Param("b", "i")>>, "i",
            <<Block("A", <<>>, Term("br", <<>>)),
              Block("H", <<Phi("ph", <<"b", K>>, <<"A", "L">>)>>, Term("condbr", <<"c">>)),
              Block("L", <<>>, Term("br", <<>>)),
              Block("X", <<>>, Term("ret", <<"ph">>))>>,
            [b \in {"A", "H", "L", "X"} |-> IF b \in {"H", "L"} THEN {"H"} ELSE {}])
\* a Store under the branch on %c and a Store outside of it:
\* A: %p = alloca ; %p2 = alloca ; store %x, %p2 ; br %c, B, C ;
\* B: store %x, %p ; br C ; C: %r = load %p ; %r2 = load %p2 ; ret %r
FnCtrlStore == Fn("f", <<Param("c", "i"), Param("x", "i")>>, "i",
            <<Block("A", <<Alloca("p", K), Alloca("p2", K),
                           Ins("store", "", <<"x", "p2">>)>>, Term("condbr", <<"c">>)),
              Block("B", <<Ins("store", "", <<"x", "p">>)>>, Term("br", <<>>)),
              Block("C", <<Ins("load", "r", <<"p">>), Ins("load", "r2", <<"p2">>)>>,
                    Term("ret", <<"r">>))>>,
            [b \in {"A", "B", "C"} |-> IF b = "B" THEN {"A"} ELSE {}])
\* the same with llvm.memset in the place of the Stores:
\* A: %p = alloca ; %p2 = alloca ; call @llvm.memset(%p2, %x, 1) ; br %c, B, C ;
\* B: call @llvm.memset(%p, %x, 1) ; br C ; C: %r = load %p ; %r2 = load %p2 ; ret %r
Memset == "llvm.memset.p0i8.i64"
FnMemset == Fn("f", <<Param("c", "i"), Param("x", "i")>>, "i",
            <<Block("A", <<Alloca("p", K), Alloca("p2", K),
                           Call("", Memset, <<"p2", "x", K>>, "void")>>,
                    Term("condbr", <<"c">>)),
              Block("B", <<Call("", Memset, <<"p", "x", K>>, "void")>>, Term("br", <<>>)),
              Block("C", <<Ins("load", "r", <<"p">>), Ins("load", "r2", <<"p2">>)>>,
                    Term("ret", <<"r">>))>>,
            [b \in {"A", "B", "C"} |-> IF b = "B" THEN {"A"} ELSE {}])
\* one terminator of each remaining kind:
\* A: switch %c, [B, C, D] ; B: %a = add %x, %x ; indirectbr %a, [D] ;
\* C: unreachable ; D: ret %c
FnTerms == Fn("f", <<Param("c", "i"), Param("x", "i")>>, "i",
            <<Block("A", <<>>, Term("switch", <<"c">>)),
              Block("B", <<Ins("bin", "a", <<"x", "x">>)>>, Term("indirectbr", <<"a">>)),
              Block("C", <<>>, Term("unreachable", <<>>)),
              Block("D", <<>>, Term("ret", <<"c">>))>>,
            [b \in {"A", "B", "C", "D"} |-> IF b \in {"B", "C"} THEN {"A"} ELSE {}])
\* a pointer to a stored value is returned:
\* %p = alloca ; store %x, %p ; ret %p
FnRetPtr == Straight("f", <<Param("x", "i")>>, "p",
                <<Alloca("p", K), Ins("store", "", <<"x", "p">>)>>,
                Term("ret", <<"p">>))
\* g exchanges its argument with a fresh cell:
\* %p = alloca ; %r = atomicrmw xchg %p, %a ; ret %r
FnRmw == Straight("g", <<Param("a", "i")>>, "i",
                <<Alloca("p", K), Ins("atomicrmw", "r", <<"p", "a">>)>>,
                Term("ret", <<"r">>))
\* an AtomicRMW under the branch on %c:
\* A: %p = alloca ; br %c, B, C ; B: %r = atomicrmw add %p, %x ; br C ;
\* C: %r2 = load %p ; ret %r2
FnCtrlRmw == Fn("f", <<Param("c", "i"), Param("x", "i")>>, "i",
            <<Block("A", <<Alloca("p", K)>>, Term("condbr", <<"c">>)),
              Block("B", <<Ins("atomicrmw", "r", <<"p", "x">>)>>, Term("br", <<>>)),
              Block("C", <<Ins("load", "r2", <<"p">>)>>, Term("ret", <<"r2">>))>>,
            [b \in {"A", "B", "C"} |-> IF b = "B" THEN {"A"} ELSE {}])
\* a select of pointers whose condition is loaded from a cell stored to later:
\* %p = alloca ; %p1 = alloca ; %p2 = alloca ; %c = load %p ;
\* %s = select %c, %p1, %p2 ; store %x, %p ; ret %x
FnSelectLate == Straight("f", <<Param("x", "i")>>, "i",
                <<Alloca("p", K), Alloca("p1", K), Alloca("p2", K),
                  Ins("load", "c", <<"p">>),
                  OfType(Ins("select", "s", <<"c", "p1", "p2">>), "p"),
                  Ins("store", "", <<"x", "p">>)>>,
                Term("ret", <<"x">>))
\* a Fence and one intrinsic of each ignored family, on %q and %x:
\* fence ; call @llvm.lifetime.start(%q) ; call @llvm.invariant.start(%q) ;
\* %l = call @llvm.launder.invariant.group(%q) ;
\* call @llvm.strip.invariant.group(%q) ; call @llvm.dbg.value(%x) ;
\* call @llvm.lifetime.end(%q) ; ret %x
FnNoops == Straight("f", <<Param("x", "i"), Param("q", "p")>>, "i",
                <<Ins("fence", "", <<>>),
                  Call("", "llvm.lifetime.start", <<"q">>, "void"),
                  Call("", "llvm.invariant.start", <<"q">>, "void"),
                  Call("l", "llvm.launder.invariant.group", <<"q">>, "p"),
                  Call("", "llvm.strip.invariant.group", <<"q">>, "void"),
                  Call("", "llvm.dbg.value", <<"x">>, "void"),
                  Call("", "llvm.lifetime.end", <<"q">>, "void")>>,
                Term("ret", <<"x">>))
\* an alloca whose count is loaded from a cell stored to later:
\* %p = alloca ; %n = load %p ; %a = alloca i32, %n ; store %x, %p ; ret %x
FnAllocaLate == Straight("f", <<Param("x", "i")>>, "i",
                <<Alloca("p", K), Ins("load", "n", <<"p">>), Alloca("a", "n"),
                  Ins("store", "", <<"x", "p">>)>>,
                Term("ret", <<"x">>))
\* f calls the variadic g (`define i32 @g(i32 %a, ...)`) with two arguments:
\* %r = call @g(%t, %t) ; ret %r
FnCallVariadic == Straight("f", <<Param("t", "i")>>, "i",
                <<Call("r", "g", <<"t", "t">>, "i")>>, Term("ret", <<"r">>))
\* a store through the source of a pointer-to-pointer cast and a load
\* through its result
FnCastBack == Straight("f", <<Param("q", "p"), Param("x", "i")>>, "i",
                <<OfType(Ins("bitcast", "p3", <<"q">>), "p"),
                  Ins("store", "", <<"x", "q">>),
                  Ins("load", "r", <<"p3">>)>>,
                Term("ret", <<"r">>))
\* an element inserted into an array and extracted from the result:
\* %r = insertvalue [2 x i32] %a, i32 %e, 0 ; %v = extractvalue %r, 0 ; ret %v
FnInsert == Straight("f", <<Param("a", "a"), Param("e", "i")>>, "i",
                <<OfType(Ins("insertvalue", "r", <<"a", "e">>), "a"),
                  Ins("extractvalue", "v", <<"r">>)>>,
                Term("ret", <<"v">>))
\* a load through a pointer parameter
FnDeref == Straight("f", <<Param("q", "p"), Param("x", "i")>>, "i",
                <<Ins("load", "r", <<"q">>), Ins("bin", "y", <<"r", "x">>)>>,
                Term("ret", <<"y">>))
\* a chain of calls f -> g -> h2 -> k, every function returning its callee's result
Link(name, callee) ==
    Straight(name, <<Param("a", "i")>>, "i",
             <<Call("r", callee, <<"a">>, "i")>>, Term("ret", <<"r">>))
FnLeaf(name) == Straight(name, <<Param("a", "i")>>, "i",
                <<Ins("un", "b", <<"a">>)>>, Term("ret", <<"b">>))
\* malformed or unsupported IR: a load through a scalar, an operand that is
\* never defined, an instruction the engine does not implement, inline assembly
FnBadLoad == Straight("f", <<Param("x", "i")>>, "i",
                <<Ins("bin", "y", <<"x", K>>), Ins("load", "r", <<"x">>),
                  Ins("bin", "z", <<"y", K>>)>>, Term("ret", <<"z">>))
FnMissing == Straight("g", <<Param("a", "i")>>, "i",
                <<Ins("bin", "b", <<"nowhere", K>>), Ins("bin", "d", <<"a", K>>)>>,
                Term("ret", <<"d">>))
FnUnsupported == Straight("u", <<Param("a", "i")>>, "i",
                <<Ins("va_arg", "b", <<"a">>), Ins("bin", "d", <<"a", K>>)>>,
                Term("ret", <<"d">>))
FnAsm == Straight("w", <<Param("a", "i")>>, "i",
                <<Ins("bin", "b", <<"a", K>>), Call("", InlineAsm, <<"a">>, "void"),
                  Ins("bin", "d", <<"b", K>>)>>,
                Term("ret", <<"d">>))
\* a call of a numbered function, a PtrToInt of a scalar, a BitCast of a
\* pointer to a scalar, an add of a pointer and a scalar, a store through a
\* scalar, a terminator the engine does not implement
FnNumbered == Straight("n", <<Param("a", "i")>>, "i",
                <<Call("r", Numbered, <<"a">>, "i"), Ins("bin", "d", <<"a", K>>)>>,
                Term("ret", <<"d">>))
FnPtrToInt == Straight("pi", <<Param("a", "i")>>, "i",
                <<Ins("ptrtoint", "b", <<"a">>), Ins("bin", "d", <<"a", K>>)>>,
                Term("ret", <<"d">>))
FnBitCast == Straight("bc", <<Param("q", "p")>>, "i",
                <<OfType(Ins("bitcast", "b", <<"q">>), "i"), Ins("bin", "d", <<"b", K>>)>>,
                Term("ret", <<"d">>))
FnMismatch == Straight("sm", <<Param("q", "p"), Param("a", "i")>>, "i",
                <<Ins("bin", "b", <<"q", "a">>), Ins("bin", "d", <<"a", K>>)>>,
                Term("ret", <<"d">>))
FnBadStore == Straight("st", <<Param("a", "i")>>, "i",
                <<Ins("store", "", <<"a", "a">>), Ins("bin", "d", <<"a", K>>)>>,
                Term("ret", <<"d">>))
FnBadTerm == Fn("iv", <<Param("a", "i")>>, "i",
                <<Block("A", <<Ins("bin", "b", <<"a", K>>)>>, Term("invoke", <<>>)),
                  Block("B", <<Ins("bin", "d", <<"b", K>>)>>, Term("ret", <<"d">>))>>,
                [b \in {"A", "B"} |-> {}])
\* casts that succeed: a pointer to an integer, an integer to a pointer, a
\* pointer to a pointer; and a debug intrinsic
FnCasts == Straight("f", <<Param("q", "p"), Param("x", "i")>>, "i",
                <<Ins("ptrtoint", "n", <<"q">>),
                  OfType(Ins("inttoptr", "p2", <<"x">>), "p"),
                  OfType(Ins("bitcast", "p3", <<"q">>), "p"),
                  Ins("store", "", <<"x", "p3">>),
                  Ins("load", "r", <<"q">>),
                  Call("", "llvm.dbg.value", <<"x">>, "void")>>,
                Term("ret", <<"n">>))
\* a call through a pointer no defined function has the type of
FnIndirectExt == Straight("f", <<Param("t", "i"), Param("q", "p"), Param("w", "i")>>, "i",
                <<ICall("r", <<"t", "q">>, "i"), Ins("icmp", "z", <<"r", K>>)>>,
                Term("ret", <<"z">>))
\* a call through a pointer that g and g2 have the type of
FnIndirect == Straight("f", <<Param("t", "i"), Param("w", "i")>>, "i",
                <<ICall("r", <<"t">>, "i")>>, Term("ret", <<"r">>))
FnConst(name) == Straight(name, <<Param("a", "i")>>, "i", <<>>, Term("ret", <<K>>))
\* f stores %x through %q, passes %q and then %q2 to the external h, and
\* loads through %q2
FnExtPtr == Straight("f", <<Param("x", "i"), Param("q", "p"), Param("q2", "p")>>, "i",
                <<Ins("store", "", <<"x", "q">>), Call("e", "h", <<"q">>, "i"),
                  Call("e2", "h", <<"q2">>, "i"), Ins("load", "r", <<"q2">>)>>,
                Term("ret", <<"r">>))

Programs == <<
    Prog(<<FnDirect>>, {"x", "y"}, OnePolicy, {TRUE}),
    Prog(<<FnMem>>, {"x"}, OnePolicy, {TRUE}),
    Prog(<<FnCallG, FnRetArg>>, {"t"}, OnePolicy, {TRUE}),
    Prog(<<FnCallExt>>, {"t", "u", "r"}, Policies, {TRUE}),
    Prog(<<FnSelect>>, {"c", "t"}, OnePolicy, {TRUE}),
    Prog(<<FnShareF, FnShareG>>, {"t"}, OnePolicy, {TRUE}),
    Prog(<<FnPhi>>, {"c", "b"}, OnePolicy, {TRUE}),
    Prog(<<FnDeref>>, {"q", "x"}, OnePolicy, BOOLEAN),
    Prog(<<Link("f", "g"), Link("g", "h2"), Link("h2", "k"), FnLeaf("k")>>,
         {"a"}, OnePolicy, {TRUE}),
    Prog(<<FnBadLoad, FnMissing, FnUnsupported, FnAsm, FnNumbered, FnPtrToInt,
           FnBitCast, FnMismatch, FnBadStore, FnBadTerm>>, {"x"}, OnePolicy, {TRUE}),
    Prog(<<FnCasts>>, {"q", "x"}, OnePolicy, {TRUE}),
    Prog(<<FnLoopPhi>>, {"c", "b"}, OnePolicy, {TRUE}),
    Prog(<<FnIndirectExt>>, {"t", "q"}, Policies, {TRUE}),
    Prog(<<FnIndirect, FnRetArg, FnConst("g2")>>, {"t"}, OnePolicy, {TRUE}),
    Prog(<<FnDirect, FnLeaf("k")>>, {"x"}, OnePolicy, {TRUE}),
    Prog(<<FnExtPtr>>, {"x"}, {"PropagateTaintShallow", "IgnoreAndReturnTainted"},
         {TRUE}),
    Prog(<<FnCtrlStore>>, {"c", "x"}, OnePolicy, {TRUE}),
    Prog(<<FnMemset>>, {"c", "x"}, OnePolicy, {TRUE}),
    Prog(<<FnTerms>>, {"c", "x"}, OnePolicy, {TRUE}),
    Prog(<<FnRetPtr>>, {"x"}, OnePolicy, {TRUE}),
    Prog(<<FnCallG, FnRmw>>, {"t"}, OnePolicy, {TRUE}),
    Prog(<<FnCtrlRmw>>, {"c", "x"}, OnePolicy, {TRUE}),
    Prog(<<FnSelectLate>>, {"x"}, OnePolicy, {TRUE}),
    Prog(<<FnNoops>>, {"x", "q"}, OnePolicy, {TRUE}),
    Prog(<<FnAllocaLate>>, {"x"}, OnePolicy, {TRUE}),
    Prog(<<FnCallVariadic, FnRetArg>>, {"t"}, OnePolicy, {TRUE}),
    Prog(<<FnCastBack>>, {"x"}, OnePolicy, {TRUE}),
    Prog(<<FnInsert>>, {"e"}, OnePolicy, {TRUE}) >>

\* do_analysis_single_function / do_analysis_multiple_functions and their inputs
Seedings(p) == {sd \in SUBSET Programs[p].seedable : Cardinality(sd) <= MaxSeeded}
Inputs ==
    UNION { { [prog |-> p, mode |-> m, seeds |-> sd, policy |-> pol, deref |-> d] :
                m \in {"single", "multiple"}, sd \in Seedings(p),
                pol \in Programs[p].policies, d \in Programs[p].derefs } :
            p \in DOMAIN Programs }

(***************************************************************************)
(* CrossModuleAnalysis: function lookup, all functions, call graph, CDG    *)
(***************************************************************************)
TheFns(S) == Programs[S.input.prog].fns
FnNames(S) == {TheFns(S)[i].name : i \in DOMAIN TheFns(S)}
\* analysis.get_func_by_name: the function, for a defined name
get_func_by_name(S, name) ==
    TheFns(S)[CHOOSE i \in DOMAIN TheFns(S) : TheFns(S)[i].name = name]
IsDefined(S, name) == name \in FnNames(S)
AllInstrs(f) ==
    UNION { Range(f.blocks[b].instrs) : b \in DOMAIN f.blocks }
\* module.type_of(operand): the LLVM type of an operand of function f
OperandType(f, op) ==
    IF op = K THEN "i"
    ELSE IF \E i \in DOMAIN f.params : f.params[i].n = op
    THEN f.params[CHOOSE i \in DOMAIN f.params : f.params[i].n = op].ty
    ELSE IF \E ins \in AllInstrs(f) : ins.dst = op
    THEN (CHOOSE ins \in AllInstrs(f) : ins.dst = op).ty
    ELSE "i"
\* the function type a call of function f goes through
SigOfCall(f, ins) ==
    [params |-> [i \in DOMAIN ins.ops |-> OperandType(f, ins.ops[i])], ret |-> ins.ty]
HasType(g, sig) ==
    [i \in DOMAIN g.params |-> g.params[i].ty] = sig.params /\ g.ret = sig.ret
\* analysis.functions_by_type().functions_with_type(func_ty), from function i on
RECURSIVE functions_with_type(_, _, _)
functions_with_type(S, sig, i) ==
    IF i > Len(TheFns(S)) THEN <<>>
    ELSE (IF HasType(TheFns(S)[i], sig) THEN <<TheFns(S)[i].name>> ELSE <<>>)
            \o functions_with_type(S, sig, i + 1)
\* analysis.call_graph().callers(name): the functions with a call of `name`
\* or a call through a pointer of the type of `name`
callers(S, name) ==
    { TheFns(S)[i].name : i \in { j \in DOMAIN TheFns(S) :
        \E ins \in AllInstrs(TheFns(S)[j]) :
            \/ ins.op = "call" /\ ins.callee = name
            \/ /\ ins.op = "icall"
               /\ name \in Range(functions_with_type(S, SigOfCall(TheFns(S)[j], ins), 1)) } }

(***************************************************************************)
(* TaintedType.  k is the shape ("val", "fnptr", "ptr", "arr"), t the taint *)
(* tag, c the pointee cell of a data pointer or the element slot of an     *)
(* ArrayOrVector (0 otherwise).  A cell holds the pointee's (element's)    *)
(* type; a pointer or an array holds a handle (the index) to a shared cell.*)
(***************************************************************************)
\* the shapes that hold a handle to a cell
Celled == {"ptr", "arr"}
\* ArrayOrVector(elem): the element slot is cell c
Arr(c) == [k |-> "arr", t |-> FALSE, c |-> c]
Val(t) == [k |-> "val", t |-> t, c |-> 0]
FnPtr(t) == [k |-> "fnptr", t |-> t, c |-> 0]
Ptr(t, c) == [k |-> "ptr", t |-> t, c |-> c]
UntaintedValue == Val(FALSE)
TaintedValue == Val(TRUE)
\* the absent type: Option::None of a return type, the Err of a lookup
NoType == [k |-> "none", t |-> FALSE, c |-> 0]

\* what an observer sees of a type: shape, tag and (for a pointer) its pointee
View(S, ty) ==
    [k |-> ty.k, t |-> ty.t,
     p |-> IF ty.k \in Celled THEN S.cells[ty.c].t ELSE FALSE]
\* the lattice order on views of one shape
Leq(a, b) == a.k = b.k /\ (a.t => b.t) /\ (a.p => b.p)

\* NamedStructs::is_type_tainted on scalars and pointers: the tag
is_type_tainted(ty) == ty.t
\* NamedStructs::to_tainted on scalars and pointers: the tag is flipped
to_tainted(ty) == [ty EXCEPT !.t = TRUE]

\* TaintedType::from_llvm_type: the wholly untainted type; a pointer gets a
\* fresh cell holding the untainted pointee, an array ("a", of integers) a
\* fresh element slot.  Yields [s, v].
from_llvm_type(S, llty) ==
    IF llty = "p"
    THEN [s |-> [S EXCEPT !.cells = Append(@, UntaintedValue)],
          v |-> Ptr(FALSE, Len(S.cells) + 1)]
    ELSE IF llty = "a"
    THEN [s |-> [S EXCEPT !.cells = Append(@, UntaintedValue)],
          v |-> Arr(Len(S.cells) + 1)]
    ELSE [s |-> S, v |-> IF llty = "f" THEN FnPtr(FALSE) ELSE UntaintedValue]

\* the functions that recorded a handle to cell c
CellUsers(S, c) ==
    { f \in DOMAIN S.taint_map :
        \E v \in DOMAIN S.taint_map[f] :
            S.taint_map[f][v].k \in Celled /\ S.taint_map[f][v].c = c }

\* Worklist::add of a set of names
AddAll(S, names) == [S EXCEPT !.worklist = @ \cup names]

\* Pointee::update: join the new type into the cell; on a strict upgrade store
\* it and put every user of the cell on the worklist.  Yields [s, v, e].
update_pointee(S, c, new) ==
    IF S.cells[c].k # new.k THEN [s |-> S, v |-> FALSE, e |-> TRUE]
    ELSE IF new.t /\ ~S.cells[c].t
    THEN [s |-> AddAll([S EXCEPT !.cells[c].t = TRUE], CellUsers(S, c)),
          v |-> TRUE, e |-> FALSE]
    ELSE [s |-> S, v |-> FALSE, e |-> FALSE]

\* Unification of two cells by content merging: the older cell k survives with
\* the join of both pointees, every handle to the other cell d is redirected to
\* k, and the users of a cell whose pointee the merge upgraded are put on the
\* worklist.  Yields [s, c] with c the surviving cell.
Redirect(ty, k, d) ==
    IF ty.k \notin Celled THEN ty
    ELSE IF ty.c = d THEN [ty EXCEPT !.c = k]
    ELSE IF ty.c > d THEN [ty EXCEPT !.c = ty.c - 1]
    ELSE ty
Merge(S, k, d) ==
    LET joined == S.cells[k].t \/ S.cells[d].t
        woken == (IF joined /\ ~S.cells[k].t THEN CellUsers(S, k) ELSE {})
                 \cup (IF joined /\ ~S.cells[d].t THEN CellUsers(S, d) ELSE {})
        newcells == [i \in 1..(Len(S.cells) - 1) |->
                        IF i = k THEN [S.cells[k] EXCEPT !.t = joined]
                        ELSE IF i < d THEN S.cells[i] ELSE S.cells[i + 1]]
        newmap == [f \in DOMAIN S.taint_map |->
                    [v \in DOMAIN S.taint_map[f] |-> Redirect(S.taint_map[f][v], k, d)]]
        newsum == [f \in DOMAIN S.fn_summaries |->
                    [params |-> [i \in DOMAIN S.fn_summaries[f].params |->
                                    Redirect(S.fn_summaries[f].params[i], k, d)],
                     ret |-> Redirect(S.fn_summaries[f].ret, k, d)]]
    IN  [s |-> AddAll([S EXCEPT !.cells = newcells, !.taint_map = newmap,
                                !.fn_summaries = newsum], woken),
         c |-> k]
Unify(S, c1, c2) ==
    IF c1 = c2 THEN [s |-> S, c |-> c1]
    ELSE IF c1 < c2 THEN Merge(S, c1, c2)
    ELSE Merge(S, c2, c1)

\* TaintedType::join of two types of one shape.  Yields [s, v].
PtrTo(U, t) == [s |-> U.s, v |-> Ptr(t, U.c)]
ArrOf(U) == [s |-> U.s, v |-> Arr(U.c)]
join(S, a, b) ==
    IF a.k = "ptr" THEN PtrTo(Unify(S, a.c, b.c), a.t \/ b.t)
    ELSE IF a.k = "arr" THEN ArrOf(Unify(S, a.c, b.c))
    ELSE [s |-> S, v |-> [a EXCEPT !.t = a.t \/ b.t]]

(***************************************************************************)
(* FunctionTaintState (of the current function S.cur_fn)                   *)
(***************************************************************************)
\* get_type_of_operand: NoType stands for the Err of a variable not in the map
get_type_of_operand(S, op) ==
    IF op = K THEN UntaintedValue
    ELSE IF op \in DOMAIN S.taint_map[S.cur_fn] THEN S.taint_map[S.cur_fn][op]
    ELSE NoType
\* update_var_taintedtype: insert when absent, else join; "changed" on an
\* insertion or a strict upgrade; a join of two shapes is an error.
\* Yields [s, v, e].
StoreVar(S, name, J) ==
    [s |-> [J.s EXCEPT !.taint_map[S.cur_fn][name] = J.v],
     v |-> View(J.s, J.v) # View(S, S.taint_map[S.cur_fn][name]),
     e |-> FALSE]
update_var_taintedtype(S, name, new) ==
    IF name \notin DOMAIN S.taint_map[S.cur_fn]
    THEN [s |-> [S EXCEPT !.taint_map[S.cur_fn] = Put(@, name, new)],
          v |-> TRUE, e |-> FALSE]
    ELSE IF S.taint_map[S.cur_fn][name].k # new.k
    THEN [s |-> S, v |-> FALSE, e |-> TRUE]
    ELSE StoreVar(S, name, join(S, S.taint_map[S.cur_fn][name], new))
\* mark_terminator_tainted: "changed" when the mark is newly set.  Yields [s, v].
mark_terminator_tainted(S, block) ==
    [s |-> [S EXCEPT !.tainted_terminators[S.cur_fn] = @ \cup {block}],
     v |-> block \notin S.tainted_terminators[S.cur_fn]]
is_terminator_tainted(S, block) == block \in S.tainted_terminators[S.cur_fn]

(***************************************************************************)
(* FunctionSummary                                                         *)
(***************************************************************************)
\* new_untainted: wholly untainted parameter types and return type (NoType
\* for void) built from LLVM types.  Yields [s, v].
RECURSIVE FreshTypes(_, _, _)
FreshNext(F, rest, acc) == FreshTypes(F.s, rest, Append(acc, F.v))
FreshTypes(S, lltys, acc) ==
    IF lltys = <<>> THEN [s |-> S, v |-> acc]
    ELSE FreshNext(from_llvm_type(S, Head(lltys)), Tail(lltys), acc)
SummaryOf(params, R) == [s |-> R.s, v |-> [params |-> params, ret |-> R.v]]
WithRet(P, ret_llty) ==
    IF ret_llty = "void" THEN SummaryOf(P.v, [s |-> P.s, v |-> NoType])
    ELSE SummaryOf(P.v, from_llvm_type(P.s, ret_llty))
new_untainted(S, param_lltys, ret_llty) ==
    WithRet(FreshTypes(S, param_lltys, <<>>), ret_llty)
InsertSummary(g, N) == [N.s EXCEPT !.fn_summaries = Put(@, g, N.v)]

\* update_params: pointwise join of the types of the operands `ops` of the
\* current function into the parameters of the summary of g; "changed" if a
\* parameter strictly increased.  (The caller has collected the operand types,
\* so none is missing; a pointer operand is read through its handle, which a
\* unification made by an earlier parameter redirects.)  Yields [s, v, e].
RECURSIVE JoinParams(_, _, _, _, _)
StoreParam(S, g, ops, i, ch, J) ==
    JoinParams([J.s EXCEPT !.fn_summaries[g].params[i] = J.v], g, ops, i + 1,
               ch \/ View(J.s, J.v) # View(S, S.fn_summaries[g].params[i]))
JoinParams(S, g, ops, i, ch) ==
    IF i > Len(ops) THEN [s |-> S, v |-> ch, e |-> FALSE]
    ELSE IF S.fn_summaries[g].params[i].k # get_type_of_operand(S, ops[i]).k
    THEN [s |-> S, v |-> ch, e |-> TRUE]
    ELSE StoreParam(S, g, ops, i, ch,
                    join(S, S.fn_summaries[g].params[i],
                            get_type_of_operand(S, ops[i])))
update_params(S, g, ops) ==
    IF Len(ops) # Len(S.fn_summaries[g].params)
    THEN [s |-> S, v |-> FALSE, e |-> TRUE]
    ELSE JoinParams(S, g, ops, 1, FALSE)
\* update_ret: join into the return type; None (void) never changes.
\* Yields [s, v, e].
StoreRet(S, g, J) ==
    [s |-> [J.s EXCEPT !.fn_summaries[g].ret = J.v],
     v |-> View(J.s, J.v) # View(S, S.fn_summaries[g].ret), e |-> FALSE]
update_ret(S, g, new) ==
    IF S.fn_summaries[g].ret = NoType \/ new = NoType
    THEN [s |-> S, v |-> FALSE, e |-> FALSE]
    ELSE IF S.fn_summaries[g].ret.k # new.k THEN [s |-> S, v |-> FALSE, e |-> TRUE]
    ELSE StoreRet(S, g, join(S, S.fn_summaries[g].ret, new))
\* taint_ret: upgrade the return type to tainted; "changed" if it was not.
\* Yields [s, v].
taint_ret(S, g) ==
    IF S.fn_summaries[g].ret = NoType THEN [s |-> S, v |-> FALSE]
    ELSE [s |-> [S EXCEPT !.fn_summaries[g].ret = to_tainted(@)],
          v |-> ~S.fn_summaries[g].ret.t]

(***************************************************************************)
(* The transfer functions.  Each yields [s, v, e]: the new state, the      *)
(* "changed" result and the failure ("" for Ok, "error" for an Err that    *)
(* compute() turns into a panic, the panic raised in place otherwise).     *)
(***************************************************************************)
Ok(S, ch) == [s |-> S, v |-> ch, e |-> ""]
Err(S) == [s |-> S, v |-> FALSE, e |-> "error"]
Panic(S, why) == [s |-> S, v |-> FALSE, e |-> why]
Lift(U) == [s |-> U.s, v |-> U.v, e |-> IF U.e THEN "error" ELSE ""]

CurFunc(S) == get_func_by_name(S, S.cur_fn)
CurBlock(S) == CurFunc(S).blocks[S.cur_block]
\* cur_mod.type_of(operand): the LLVM type of an operand of the current function
type_of(S, op) == OperandType(CurFunc(S), op)
Missing(S, ops) == \E i \in DOMAIN ops : get_type_of_operand(S, ops[i]) = NoType

\* cdg.get_control_dependencies(block).any(|dep| cur_fn.is_terminator_tainted(dep))
is_ctrl_dep_on_tainted_term(S, block) ==
    \E dep \in CurFunc(S).cdg[block] : is_terminator_tainted(S, dep)

\* `update_var_taintedtype(result, ty)` with a type R.v computed in state R.s
UpdateWith(R, dst) == Lift(update_var_taintedtype(R.s, dst, R.v))

\* a faulty load: whatever the pointee, an untainted value is loaded
get_load_result_ty_untainted(S, addr) ==
    IF addr.k # "ptr" THEN Err(S) ELSE [s |-> S, v |-> UntaintedValue, e |-> ""]
\* a faulty load: dereferencing_tainted_ptr_gives_tainted is ignored
get_load_result_ty_plain(S, addr) ==
    IF addr.k # "ptr" THEN Err(S) ELSE [s |-> S, v |-> S.cells[addr.c], e |-> ""]
\* get_load_result_ty.  Yields [s, v, e] with v the loaded type.
Loaded(U, c) == [s |-> U.s, v |-> U.s.cells[c], e |-> ""]
get_load_result_ty(S, addr) ==
    IF addr.k # "ptr" THEN Err(S)
    ELSE IF addr.t /\ S.input.deref
    THEN Loaded(update_pointee(S, addr.c, to_tainted(S.cells[addr.c])), addr.c)
    ELSE [s |-> S, v |-> S.cells[addr.c], e |-> ""]

\* a faulty store: the address is checked but the pointee is not updated
process_store_dropping(S, value, addr) ==
    IF addr.k # "ptr" THEN Err(S) ELSE Ok(S, FALSE)
\* a faulty store: the control dependence of the block is ignored
process_store_explicit(S, value, addr) ==
    IF addr.k # "ptr" THEN Err(S)
    ELSE Lift(update_pointee(S, addr.c, value))
\* process_store
process_store(S, value, addr) ==
    IF addr.k # "ptr" THEN Err(S)
    ELSE IF is_ctrl_dep_on_tainted_term(S, CurBlock(S).name)
    THEN Lift(update_pointee(S, addr.c, to_tainted(value)))
    ELSE Lift(update_pointee(S, addr.c, value))

\* process_function_call: the summary on demand, the arguments joined into
\* its parameters, the destination updated with its return type
RECURSIVE TypesOf(_, _)
TypesOf(S, ops) ==
    IF ops = <<>> THEN <<>> ELSE <<type_of(S, Head(ops))>> \o TypesOf(S, Tail(ops))
\* a faulty call: the destination variable is inserted untainted and never
\* updated with the summary's return type
CallDestStale(S, S2, call, funcname) ==
    IF call.dst = "" THEN Ok(S2, FALSE)
    ELSE IF S2.fn_summaries[funcname].ret = NoType THEN Panic(S, "unwrap")
    ELSE Lift(update_var_taintedtype(S2, call.dst, UntaintedValue))
CallDest(S, S2, call, funcname) ==
    IF call.dst = "" THEN Ok(S2, FALSE)
    ELSE IF S2.fn_summaries[funcname].ret = NoType THEN Panic(S, "unwrap")
    ELSE Lift(update_var_taintedtype(S2, call.dst, S2.fn_summaries[funcname].ret))
\* a faulty call: on a changed summary only the callers are enqueued, not the
\* callee
CallParamsCallersOnly(S, U, call, funcname) ==
    IF U.e THEN Err(S)
    ELSE IF U.v
    THEN CallDest(S, AddAll(U.s, callers(S, funcname)), call, funcname)
    ELSE CallDest(S, U.s, call, funcname)
\* a faulty call: an upgrade of the callee's summary parameters is written
\* into the callee's variables at once
TaintVarsOf(S, g) ==
    IF g \in DOMAIN S.taint_map
    THEN [S EXCEPT !.taint_map[g] = [v \in DOMAIN @ |-> to_tainted(@[v])]]
    ELSE S
CallParamsEager(S, U, call, funcname) ==
    IF U.e THEN Err(S)
    ELSE IF U.v
    THEN CallDest(S, AddAll(TaintVarsOf(U.s, funcname), callers(S, funcname) \cup {funcname}),
                  call, funcname)
    ELSE CallDest(S, U.s, call, funcname)
CallParams(S, U, call, funcname) ==
    IF U.e THEN Err(S)
    ELSE IF U.v
    THEN CallDest(S, AddAll(U.s, callers(S, funcname) \cup {funcname}), call, funcname)
    ELSE CallDest(S, U.s, call, funcname)
CallSummary(S, S1, call, funcname) ==
    IF Missing(S1, call.ops) THEN Err(S)
    ELSE CallParams(S, update_params(S1, funcname, call.ops), call, funcname)
\* a faulty call: a callee without a summary is put on the worklist but gets
\* no summary
process_function_call_bare(S, call, funcname) ==
    IF funcname \in DOMAIN S.fn_summaries THEN CallSummary(S, S, call, funcname)
    ELSE IF call.dst = "" THEN Ok(AddAll(S, {funcname}), FALSE)
    ELSE Lift(update_var_taintedtype(AddAll(S, {funcname}), call.dst, UntaintedValue))
\* a faulty call: a callee without a summary gets the untainted summary but
\* is not put on the worklist
process_function_call_unqueued(S, call, funcname) ==
    IF funcname \in DOMAIN S.fn_summaries THEN CallSummary(S, S, call, funcname)
    ELSE CallSummary(S, InsertSummary(funcname,
                            new_untainted(S, TypesOf(S, call.ops), call.ty)),
                     call, funcname)
process_function_call(S, call, funcname) ==
    IF funcname \in DOMAIN S.fn_summaries THEN CallSummary(S, S, call, funcname)
    ELSE CallSummary(S, InsertSummary(funcname,
                            new_untainted(AddAll(S, {funcname}),
                                          TypesOf(S, call.ops), call.ty)),
                     call, funcname)

\* the fold `result_ty = result_ty.join(&ty)?` over the incoming values of a
\* Phi, from value i on.  Yields [s, v, e].
RECURSIVE JoinIncoming(_, _, _, _)
NextIncoming(J, ops, i) == JoinIncoming(J.s, ops, i + 1, J.v)
JoinIncoming(S, ops, i, acc) ==
    IF i > Len(ops) THEN [s |-> S, v |-> acc, e |-> FALSE]
    ELSE IF get_type_of_operand(S, ops[i]).k # acc.k
    THEN [s |-> S, v |-> acc, e |-> TRUE]
    ELSE NextIncoming(join(S, acc, get_type_of_operand(S, ops[i])), ops, i)

\* process_instruction, one arm each
\* a faulty binary operation: the result takes the type of the first operand
BinaryOpOfFirst(S, ins) ==
    IF Missing(S, ins.ops) THEN Err(S)
    ELSE Lift(update_var_taintedtype(S, ins.dst, get_type_of_operand(S, ins.ops[1])))
BinaryOp(S, ins) ==
    IF \/ Missing(S, ins.ops)
       \/ get_type_of_operand(S, ins.ops[1]).k # get_type_of_operand(S, ins.ops[2]).k
    THEN Err(S)
    ELSE UpdateWith(join(S, get_type_of_operand(S, ins.ops[1]),
                            get_type_of_operand(S, ins.ops[2])), ins.dst)
\* a faulty unary operation: a result that is already in the map is
\* overwritten with the opposite of its tag instead of being joined into
UnaryOpFlipping(S, ins) ==
    IF Missing(S, ins.ops) THEN Err(S)
    ELSE IF ins.dst \in DOMAIN S.taint_map[S.cur_fn]
    THEN Ok([S EXCEPT !.taint_map[S.cur_fn][ins.dst].t = ~@], TRUE)
    ELSE Lift(update_var_taintedtype(S, ins.dst, get_type_of_operand(S, ins.ops[1])))
UnaryOp(S, ins) ==
    IF Missing(S, ins.ops) THEN Err(S)
    ELSE Lift(update_var_taintedtype(S, ins.dst, get_type_of_operand(S, ins.ops[1])))
\* a faulty comparison: the result is tainted whatever the operands
ICmpTainted(S, ins) ==
    IF Missing(S, ins.ops) THEN Err(S)
    ELSE Lift(update_var_taintedtype(S, ins.dst, TaintedValue))
ICmp(S, ins) ==
    IF Missing(S, ins.ops) THEN Err(S)
    ELSE Lift(update_var_taintedtype(S, ins.dst,
                IF \/ is_type_tainted(get_type_of_operand(S, ins.ops[1]))
                   \/ is_type_tainted(get_type_of_operand(S, ins.ops[2]))
                THEN TaintedValue ELSE UntaintedValue))
AllocaInst(S, ins) ==
    IF Missing(S, ins.ops) THEN Err(S)
    ELSE IF is_type_tainted(get_type_of_operand(S, ins.ops[1]))
    THEN Lift(update_var_taintedtype(S, ins.dst, TaintedValue))
    ELSE UpdateWith(from_llvm_type(S, "p"), ins.dst)
LoadResult(S, L, dst) == IF L.e # "" THEN Err(S) ELSE UpdateWith(L, dst)
LoadInst(S, ins) ==
    IF Missing(S, ins.ops) THEN Err(S)
    ELSE LoadResult(S, get_load_result_ty(S, get_type_of_operand(S, ins.ops[1])),
                    ins.dst)
StoreInst(S, ins) ==
    IF Missing(S, ins.ops) THEN Err(S)
    ELSE process_store(S, get_type_of_operand(S, ins.ops[1]),
                          get_type_of_operand(S, ins.ops[2]))
\* AtomicRMW: the loaded type L.v, its join with the value stored through the
\* address (the result of process_store is dropped), the result variable
\* updated with the loaded type
RmwResult(S, L, P, dst) ==
    IF P.e # "" THEN Err(S) ELSE Lift(update_var_taintedtype(P.s, dst, L.v))
\* a faulty AtomicRMW: the result variable takes the type that was stored
RmwResultStored(S, L, J, addr, dst) ==
    IF process_store(J.s, J.v, addr).e # "" THEN Err(S)
    ELSE Lift(update_var_taintedtype(process_store(J.s, J.v, addr).s, dst, J.v))
RmwStore(S, L, J, addr, dst) == RmwResult(S, L, process_store(J.s, J.v, addr), dst)
RmwLoaded(S, L, addr, value, dst) ==
    IF L.e # "" THEN Err(S)
    ELSE IF L.v.k # value.k THEN Err(S)
    ELSE RmwStore(S, L, join(L.s, L.v, value), addr, dst)
AtomicRMW(S, ins) ==
    IF Missing(S, ins.ops) THEN Err(S)
    ELSE RmwLoaded(S, get_load_result_ty(S, get_type_of_operand(S, ins.ops[1])),
                   get_type_of_operand(S, ins.ops[1]),
                   get_type_of_operand(S, ins.ops[2]), ins.dst)
\* a faulty Phi: only the control dependences of the Phi's own block count
PhiResultOwnBlockOnly(S, J, ins) ==
    IF J.e THEN Err(S)
    ELSE IF is_ctrl_dep_on_tainted_term(S, CurBlock(S).name)
    THEN Lift(update_var_taintedtype(J.s, ins.dst, to_tainted(J.v)))
    ELSE Lift(update_var_taintedtype(J.s, ins.dst, J.v))
PhiResult(S, J, ins) ==
    IF J.e THEN Err(S)
    ELSE IF \/ is_ctrl_dep_on_tainted_term(S, CurBlock(S).name)
            \/ \E i \in DOMAIN ins.preds : is_ctrl_dep_on_tainted_term(S, ins.preds[i])
    THEN Lift(update_var_taintedtype(J.s, ins.dst, to_tainted(J.v)))
    ELSE Lift(update_var_taintedtype(J.s, ins.dst, J.v))
PhiInst(S, ins) ==
    IF Missing(S, ins.ops) THEN Err(S)
    ELSE PhiResult(S, JoinIncoming(S, ins.ops, 2, get_type_of_operand(S, ins.ops[1])),
                   ins)
SelectInst(S, ins) ==
    IF get_type_of_operand(S, ins.ops[1]) = NoType THEN Err(S)
    ELSE IF is_type_tainted(get_type_of_operand(S, ins.ops[1]))
    THEN Lift(update_var_taintedtype(S, ins.dst, TaintedValue))
    ELSE IF \/ Missing(S, ins.ops)
            \/ get_type_of_operand(S, ins.ops[2]).k # get_type_of_operand(S, ins.ops[3]).k
    THEN Err(S)
    ELSE UpdateWith(join(S, get_type_of_operand(S, ins.ops[2]),
                            get_type_of_operand(S, ins.ops[3])), ins.dst)
\* BitCast and IntToPtr of a scalar: the type made from the LLVM result type
\* F.v, tainted when the operand is
CastTo(F, tainted, dst) ==
    IF tainted THEN Lift(update_var_taintedtype(F.s, dst, to_tainted(F.v)))
    ELSE Lift(update_var_taintedtype(F.s, dst, F.v))
\* NamedStructs::get_element_ptr of the pointer untainted_ptr_to(agg) with the
\* indices <<0, i>>: the pointer, with the parent's tag (untainted), to the
\* slot of the indexed element of agg; NoType stands for the Err of an index
\* into a type that has no elements
get_element_ptr(agg) == IF agg.k = "arr" THEN Ptr(FALSE, agg.c) ELSE NoType
\* ExtractValue: the type held by the slot of the indexed element
ExtractValue(S, ins) ==
    IF Missing(S, ins.ops) THEN Err(S)
    ELSE IF get_element_ptr(get_type_of_operand(S, ins.ops[1])) = NoType THEN Err(S)
    ELSE Lift(update_var_taintedtype(S, ins.dst,
            S.cells[get_element_ptr(get_type_of_operand(S, ins.ops[1])).c]))
\* InsertValue: the element is joined into the slot of the indexed element,
\* and the result is updated with the type read for the aggregate, which
\* holds the handle of that slot
InsertResult(S, U, struct_ty, dst) ==
    IF U.e THEN Err(S) ELSE Lift(update_var_taintedtype(U.s, dst, struct_ty))
\* a faulty InsertValue: the result is updated with a copy of the aggregate's
\* type taken before the insertion, with an element slot of its own
InsertCopied(S, U, F, struct_ty, dst) ==
    IF U.e THEN Err(S) ELSE Lift(update_var_taintedtype(
        [F.s EXCEPT !.cells[F.v.c].t = S.cells[struct_ty.c].t,
                    !.worklist = U.s.worklist],
        dst, F.v))
InsertValueByValue(S, ins) ==
    IF Missing(S, ins.ops) THEN Err(S)
    ELSE IF get_element_ptr(get_type_of_operand(S, ins.ops[1])) = NoType
    THEN Err(S)
    ELSE InsertCopied(S,
            update_pointee(S, get_element_ptr(get_type_of_operand(S, ins.ops[1])).c,
                           get_type_of_operand(S, ins.ops[2])),
            from_llvm_type(S, "a"), get_type_of_operand(S, ins.ops[1]), ins.dst)
InsertValue(S, ins) ==
    IF Missing(S, ins.ops) THEN Err(S)
    ELSE IF get_element_ptr(get_type_of_operand(S, ins.ops[1])) = NoType
    THEN Err(S)
    ELSE InsertResult(S,
            update_pointee(S, get_element_ptr(get_type_of_operand(S, ins.ops[1])).c,
                           get_type_of_operand(S, ins.ops[2])),
            get_type_of_operand(S, ins.ops[1]), ins.dst)
\* BitCast of a pointer to a pointer: a pointer with the operand's tag to a
\* new pointee, tainted when the operand's pointee is
BitCastPtr(F, from_ty, dst) ==
    Lift(update_var_taintedtype(
            [F.s EXCEPT !.cells[F.v.c].t = F.s.cells[from_ty.c].t],
            dst, [F.v EXCEPT !.t = from_ty.t]))
BitCast(S, ins) ==
    IF get_type_of_operand(S, ins.ops[1]) = NoType THEN Err(S)
    ELSE IF get_type_of_operand(S, ins.ops[1]).k # "ptr"
    THEN CastTo(from_llvm_type(S, ins.ty),
                is_type_tainted(get_type_of_operand(S, ins.ops[1])), ins.dst)
    ELSE IF ins.ty # "p" THEN Err(S)
    ELSE BitCastPtr(from_llvm_type(S, "p"), get_type_of_operand(S, ins.ops[1]),
                    ins.dst)
PtrToInt(S, ins) ==
    IF get_type_of_operand(S, ins.ops[1]).k \notin {"ptr", "fnptr"} THEN Err(S)
    ELSE IF get_type_of_operand(S, ins.ops[1]).t
    THEN Lift(update_var_taintedtype(S, ins.dst, TaintedValue))
    ELSE Lift(update_var_taintedtype(S, ins.dst, UntaintedValue))
IntToPtr(S, ins) ==
    IF get_type_of_operand(S, ins.ops[1]) = NoType THEN Err(S)
    ELSE CastTo(from_llvm_type(S, ins.ty),
                is_type_tainted(get_type_of_operand(S, ins.ops[1])), ins.dst)
\* Call of a function named by a constant
IgnoredIntrinsic(name) ==
    name \in {"llvm.lifetime.start", "llvm.lifetime.end", "llvm.invariant.start",
              "llvm.launder.invariant.group", "llvm.strip.invariant.group",
              "llvm.dbg.value"}
\* `name.starts_with("llvm.memset")`
IsMemset(name) == name \in {"llvm.memset", Memset}
\* llvm.memset(address, value, ..): the pointee of the address is updated with
\* the type of the value
MemsetCall(S, ins) ==
    IF Len(ins.ops) < 2 \/ Missing(S, SubSeq(ins.ops, 1, 2)) THEN Err(S)
    ELSE IF get_type_of_operand(S, ins.ops[1]).k # "ptr" THEN Err(S)
    ELSE Lift(update_pointee(S, get_type_of_operand(S, ins.ops[1]).c,
                             get_type_of_operand(S, ins.ops[2])))
\* a faulty call: the ignored intrinsics are called like external functions
CallInstOfIntrinsics(S, ins) ==
    IF ins.callee = InlineAsm \/ ins.callee = Numbered THEN Panic(S, "unimplemented")
    ELSE IF IsMemset(ins.callee) THEN MemsetCall(S, ins)
    ELSE process_function_call(S, ins, ins.callee)
CallInst(S, ins) ==
    IF ins.callee = InlineAsm \/ ins.callee = Numbered THEN Panic(S, "unimplemented")
    ELSE IF IgnoredIntrinsic(ins.callee) THEN Ok(S, FALSE)
    ELSE IF IsMemset(ins.callee) THEN MemsetCall(S, ins)
    ELSE process_function_call(S, ins, ins.callee)
\* Call through a function pointer: every defined function of the pointer's
\* type is a target; with no target the call is one of an external function
\* under the default policy
IndirectDest(S, ins, tainted) ==
    IF ins.dst = "" THEN Ok(S, FALSE)
    ELSE CastTo(from_llvm_type(S, ins.ty), tainted, ins.dst)
ExternalIndirect(S, ins) ==
    CASE S.input.policy = "IgnoreAndReturnUntainted" -> IndirectDest(S, ins, FALSE)
      [] S.input.policy = "IgnoreAndReturnTainted" -> IndirectDest(S, ins, TRUE)
      [] S.input.policy = "PropagateTaintShallow" ->
            IF Missing(S, ins.ops) THEN Err(S)
            ELSE IndirectDest(S, ins,
                    \E i \in DOMAIN ins.ops :
                        is_type_tainted(get_type_of_operand(S, ins.ops[i])))
      [] S.input.policy = "PropagateTaintDeep" -> Panic(S, "unimplemented")
      [] OTHER -> Panic(S, "policy")
\* `for target in targets { changed |= self.process_function_call(call, target)? }`
RECURSIVE CallTargets(_, _, _, _, _)
NextTarget(R, ins, targets, i, ch) ==
    IF R.e # "" THEN R ELSE CallTargets(R.s, ins, targets, i + 1, ch \/ R.v)
CallTargets(S, ins, targets, i, ch) ==
    IF i > Len(targets) THEN Ok(S, ch)
    ELSE NextTarget(process_function_call(S, ins, targets[i]), ins, targets, i, ch)
\* a faulty indirect call: only the first candidate target is called
IndirectCallFirst(S, ins) ==
    IF functions_with_type(S, SigOfCall(CurFunc(S), ins), 1) = <<>>
    THEN ExternalIndirect(S, ins)
    ELSE CallTargets(S, ins,
                     SubSeq(functions_with_type(S, SigOfCall(CurFunc(S), ins), 1), 1, 1),
                     1, FALSE)
IndirectCall(S, ins) ==
    IF functions_with_type(S, SigOfCall(CurFunc(S), ins), 1) = <<>>
    THEN ExternalIndirect(S, ins)
    ELSE CallTargets(S, ins, functions_with_type(S, SigOfCall(CurFunc(S), ins), 1),
                     1, FALSE)

process_instruction(S, ins) ==
    CASE ins.op = "bin"    -> BinaryOp(S, ins)
      [] ins.op = "un"     -> UnaryOp(S, ins)
      [] ins.op = "bitcast" -> BitCast(S, ins)
      [] ins.op = "ptrtoint" -> PtrToInt(S, ins)
      [] ins.op = "inttoptr" -> IntToPtr(S, ins)
      [] ins.op = "icmp"   -> ICmp(S, ins)
      [] ins.op = "alloca" -> AllocaInst(S, ins)
      [] ins.op = "load"   -> LoadInst(S, ins)
      [] ins.op = "store"  -> StoreInst(S, ins)
      [] ins.op = "phi"    -> PhiInst(S, ins)
      [] ins.op = "select" -> SelectInst(S, ins)
      [] ins.op = "atomicrmw" -> AtomicRMW(S, ins)
      [] ins.op = "fence"  -> Ok(S, FALSE)
      [] ins.op = "extractvalue" -> ExtractValue(S, ins)
      [] ins.op = "insertvalue" -> InsertValue(S, ins)
      [] ins.op = "call"   -> CallInst(S, ins)
      [] ins.op = "icall"  -> IndirectCall(S, ins)
      [] OTHER             -> Panic(S, "unimplemented")

\* process_terminator
\* a faulty Ret arm: the summary's return type is updated but the callers are
\* not put on the worklist
RetDoneWithoutCallers(S, M, U) ==
    IF U.e THEN Err(S)
    ELSE IF U.v THEN Ok(U.s, TRUE)
    ELSE Ok(U.s, M.v)
RetDone(S, M, U) ==
    IF U.e THEN Err(S)
    ELSE IF U.v THEN Ok(AddAll(U.s, callers(S, S.cur_fn)), TRUE)
    ELSE Ok(U.s, M.v)
RetSummary(S, op_type, M) ==
    IF S.cur_fn \notin DOMAIN S.fn_summaries THEN Ok(M.s, M.v)
    ELSE RetDone(S, M, update_ret(M.s, S.cur_fn, op_type))
\* a faulty Ret: the terminator is never marked
RetTermUnmarked(S, term) ==
    IF term.ops = <<>> THEN RetSummary(S, NoType, [s |-> S, v |-> FALSE])
    ELSE IF get_type_of_operand(S, term.ops[1]) = NoType THEN Err(S)
    ELSE RetSummary(S, get_type_of_operand(S, term.ops[1]), [s |-> S, v |-> FALSE])
RetTerm(S, term) ==
    IF term.ops = <<>> THEN RetSummary(S, NoType, [s |-> S, v |-> FALSE])
    ELSE IF get_type_of_operand(S, term.ops[1]) = NoType THEN Err(S)
    ELSE IF is_type_tainted(get_type_of_operand(S, term.ops[1]))
    THEN RetSummary(S, get_type_of_operand(S, term.ops[1]),
                    mark_terminator_tainted(S, CurBlock(S).name))
    ELSE RetSummary(S, get_type_of_operand(S, term.ops[1]), [s |-> S, v |-> FALSE])
Marked(M) == Ok(M.s, M.v)
\* a faulty branch: a tainted operand reports a change on every pass
BranchTermReporting(S, term) ==
    IF get_type_of_operand(S, term.ops[1]) = NoType THEN Err(S)
    ELSE IF is_type_tainted(get_type_of_operand(S, term.ops[1]))
    THEN Ok(mark_terminator_tainted(S, CurBlock(S).name).s, TRUE)
    ELSE Ok(S, FALSE)
BranchTerm(S, term) ==
    IF get_type_of_operand(S, term.ops[1]) = NoType THEN Err(S)
    ELSE IF is_type_tainted(get_type_of_operand(S, term.ops[1]))
    THEN Marked(mark_terminator_tainted(S, CurBlock(S).name))
    ELSE Ok(S, FALSE)
process_terminator(S, term) ==
    CASE term.op = "ret" -> RetTerm(S, term)
      [] term.op \in {"condbr", "switch", "indirectbr"} -> BranchTerm(S, term)
      [] term.op \in {"br", "unreachable"} -> Ok(S, FALSE)
      [] OTHER -> Panic(S, "unimplemented")

(***************************************************************************)
(* process_function: the prologue (state and summary on demand, parameter  *)
(* mirroring) and the pass over the blocks, one instruction or terminator  *)
(* per step.                                                               *)
(***************************************************************************)
\* the parameter map of a FunctionTaintState: every parameter from_llvm_type,
\* the seeded ones tainted.  Yields [s, v].
RECURSIVE ParamMap(_, _, _, _)
NextParam(F, params, seeds, acc) ==
    ParamMap(F.s, Tail(params), seeds,
             Put(acc, Head(params).n,
                 IF Head(params).n \in seeds THEN to_tainted(F.v) ELSE F.v))
ParamMap(S, params, seeds, acc) ==
    IF params = <<>> THEN [s |-> S, v |-> acc]
    ELSE NextParam(from_llvm_type(S, Head(params).ty), params, seeds, acc)
ParamTypes(f) == [i \in DOMAIN f.params |-> f.params[i].ty]
ParamNames(f) == [i \in DOMAIN f.params |-> f.params[i].n]
\* FunctionTaintState::from_taint_map entered into fn_taint_states
InsertState(name, M) ==
    [M.s EXCEPT !.taint_map = Put(@, name, M.v),
                !.tainted_terminators = Put(@, name, {})]

\* `for (param, param_ty) in f.parameters.iter().zip_eq(summary.get_params())`:
\* update the parameter variables from the summary, from parameter i on; the
\* `bool` of update_var_taintedtype is thrown away.  Yields [s, e].
\* a faulty mirroring: the parameter variable is overwritten with the summary's
\* parameter type instead of being joined with it
RECURSIVE MirrorParamsOverwriting(_, _, _)
MirrorParamsOverwriting(S, f, i) ==
    IF i > Len(f.params) THEN [s |-> S, e |-> FALSE]
    ELSE MirrorParamsOverwriting(
            [S EXCEPT !.taint_map[S.cur_fn] =
                        Put(@, f.params[i].n, S.fn_summaries[f.name].params[i])],
            f, i + 1)
RECURSIVE MirrorParams(_, _, _)
NextMirror(S, U, f, i) ==
    IF U.e THEN [s |-> S, e |-> TRUE] ELSE MirrorParams(U.s, f, i + 1)
MirrorParams(S, f, i) ==
    IF i > Len(f.params) THEN [s |-> S, e |-> FALSE]
    ELSE NextMirror(S, update_var_taintedtype(S, f.params[i].n,
                                              S.fn_summaries[f.name].params[i]),
                    f, i)

\* the part of process_function before the pass over the blocks
EntryDone(S, U, f) ==
    IF U.e THEN Err(S)
    ELSE IF U.v
    THEN Ok([AddAll(U.s, callers(S, f.name)) EXCEPT
                !.cur_block = 1, !.pc = 1, !.changed = FALSE, !.phase = "pass"],
            FALSE)
    ELSE Ok([U.s EXCEPT
                !.cur_block = 1, !.pc = 1, !.changed = FALSE, !.phase = "pass"],
            FALSE)
\* a faulty prologue: the parameter variables are not mirrored back into the
\* summary
EntryUpdateOneWay(S, P, f) ==
    IF P.e THEN Err(S)
    ELSE EntryDone(S, [s |-> P.s, v |-> FALSE, e |-> FALSE], f)
EntryUpdate(S, P, f) ==
    IF P.e THEN Err(S)
    ELSE EntryDone(S, update_params(P.s, f.name, ParamNames(f)), f)
EntryMirror(S, S2, f) ==
    IF Len(S2.fn_summaries[f.name].params) # Len(f.params) THEN Panic(S, "zip_eq")
    ELSE EntryUpdate(S, MirrorParams(S2, f, 1), f)
EntrySummary(S, S1, f) ==
    IF f.name \in DOMAIN S1.fn_summaries THEN EntryMirror(S, S1, f)
    ELSE EntryMirror(S, InsertSummary(f.name, new_untainted(S1, ParamTypes(f), f.ret)),
                     f)
EntryState(S, f) ==
    IF f.name \in DOMAIN S.taint_map THEN EntrySummary(S, S, f)
    ELSE EntrySummary(S, InsertState(f.name, ParamMap(S, f.params, {}, EmptyMap)), f)
process_function_entry(S, f) == EntryState([S EXCEPT !.cur_fn = f.name], f)

\* compute() turning a failure into a panic: nothing runs afterwards
Abort(S, why) == [S EXCEPT !.phase = "panic", !.diag = why]
Settle(S, R) == IF R.e # "" THEN Abort(S, R.e) ELSE R.s

\* one instruction of the pass: `changed |= self.process_instruction(inst)?`
\* a faulty pass: an instruction that fails is skipped
AfterInstructionSkipping(S, R) ==
    IF R.e # "" THEN [S EXCEPT !.pc = S.pc + 1]
    ELSE [R.s EXCEPT !.changed = S.changed \/ R.v, !.pc = S.pc + 1]
AfterInstruction(S, R) ==
    IF R.e # "" THEN Abort(S, R.e)
    ELSE [R.s EXCEPT !.changed = S.changed \/ R.v, !.pc = S.pc + 1]
StepInstruction(S) ==
    AfterInstruction(S, process_instruction(S, CurBlock(S).instrs[S.pc]))
\* the terminator of the block: `changed |= self.process_terminator(&bb.term)?`,
\* then the next block, or `self.cur_block = None; Ok(changed)` after the last
AfterTerminator(S, R) ==
    IF R.e # "" THEN Abort(S, R.e)
    ELSE IF S.cur_block = Len(CurFunc(S).blocks)
    THEN [R.s EXCEPT !.changed = S.changed \/ R.v, !.pc = 1,
                     !.cur_block = 0, !.phase = "endpop"]
    ELSE [R.s EXCEPT !.changed = S.changed \/ R.v, !.pc = 1,
                     !.cur_block = S.cur_block + 1]
StepTerminator(S) == AfterTerminator(S, process_terminator(S, CurBlock(S).term))

(***************************************************************************)
(* compute(): the outer loop                                               *)
(***************************************************************************)
\* the external-function arm of compute(), for the popped name
RetTainted(T) == Ok(T.s, T.v)
\* a faulty external arm: the rejected policies behave like
\* PropagateTaintShallow
handle_external_lenient(S, fn_name) ==
    IF S.input.policy = "IgnoreAndReturnUntainted" THEN Ok(S, FALSE)
    ELSE IF fn_name \notin DOMAIN S.fn_summaries THEN Panic(S, "no summary")
    ELSE IF \/ S.input.policy = "IgnoreAndReturnTainted"
            \/ \E i \in DOMAIN S.fn_summaries[fn_name].params :
                    is_type_tainted(S.fn_summaries[fn_name].params[i])
    THEN RetTainted(taint_ret(S, fn_name))
    ELSE Ok(S, FALSE)
\* a faulty external arm: a deep propagation, which also taints the pointees
\* of the summary's pointer parameters
TaintParamPointees(S, fn_name) ==
    [S EXCEPT !.cells =
        [c \in DOMAIN S.cells |->
            IF \E i \in DOMAIN S.fn_summaries[fn_name].params :
                    /\ S.fn_summaries[fn_name].params[i].k = "ptr"
                    /\ S.fn_summaries[fn_name].params[i].c = c
            THEN to_tainted(S.cells[c]) ELSE S.cells[c]]]
handle_external_deep(S, fn_name) ==
    IF S.input.policy = "IgnoreAndReturnUntainted" THEN Ok(S, FALSE)
    ELSE IF S.input.policy = "PropagateTaintDeep" THEN Panic(S, "unimplemented")
    ELSE IF S.input.policy = "Panic" THEN Panic(S, "policy")
    ELSE IF fn_name \notin DOMAIN S.fn_summaries THEN Panic(S, "no summary")
    ELSE IF \/ S.input.policy = "IgnoreAndReturnTainted"
            \/ \E i \in DOMAIN S.fn_summaries[fn_name].params :
                    is_type_tainted(S.fn_summaries[fn_name].params[i])
    THEN RetTainted(taint_ret(TaintParamPointees(S, fn_name), fn_name))
    ELSE Ok(S, FALSE)
\* a faulty external arm: IgnoreAndReturnTainted reports a change on every pop
handle_external_restless(S, fn_name) ==
    IF S.input.policy # "IgnoreAndReturnTainted" THEN Ok(S, FALSE)
    ELSE IF fn_name \notin DOMAIN S.fn_summaries THEN Panic(S, "no summary")
    ELSE Ok(taint_ret(S, fn_name).s, TRUE)
handle_external(S, fn_name) ==
    CASE S.input.policy = "IgnoreAndReturnUntainted" -> Ok(S, FALSE)
      [] S.input.policy = "IgnoreAndReturnTainted" ->
            IF fn_name \notin DOMAIN S.fn_summaries THEN Panic(S, "no summary")
            ELSE RetTainted(taint_ret(S, fn_name))
      [] S.input.policy = "PropagateTaintShallow" ->
            IF fn_name \notin DOMAIN S.fn_summaries THEN Panic(S, "no summary")
            ELSE IF \E i \in DOMAIN S.fn_summaries[fn_name].params :
                        is_type_tainted(S.fn_summaries[fn_name].params[i])
            THEN RetTainted(taint_ret(S, fn_name))
            ELSE Ok(S, FALSE)
      [] S.input.policy = "PropagateTaintDeep" -> Panic(S, "unimplemented")
      [] OTHER -> Panic(S, "policy")

\* `self.worklist.borrow_mut().pop()` of fn_name and the match on
\* get_func_by_name: the prologue of process_function, or the external arm
AfterExternal(S, R) ==
    IF R.e # "" THEN Abort(S, R.e)
    ELSE [R.s EXCEPT !.changed = R.v, !.phase = "endpop"]
Popped(S, fn_name) ==
    IF IsDefined(S, fn_name)
    THEN Settle(S, process_function_entry(S, get_func_by_name(S, fn_name)))
    ELSE AfterExternal(S, handle_external(S, fn_name))
PopFunction(S, fn_name) ==
    Popped([S EXCEPT !.worklist = @ \ {fn_name}, !.popped = fn_name], fn_name)

\* `if changed { iter_ctr += 1; if iter_ctr >= 8 { panic } worklist.add(fn_name) }`
\* (streak is a history variable: the run of consecutive pops of one function
\* that reported a change)
EndPop(S) ==
    IF ~S.changed
    THEN [S EXCEPT !.phase = "loop", !.streak = [fn |-> "", n |-> 0]]
    ELSE IF S.iter_ctr + 1 >= InfiniteAnalysisLimit
    THEN [S EXCEPT !.phase = "panic", !.diag = "Infinite analysis",
                   !.iter_ctr = S.iter_ctr + 1,
                   !.streak = IF S.streak.fn = S.popped
                              THEN [fn |-> S.popped, n |-> S.streak.n + 1]
                              ELSE [fn |-> S.popped, n |-> 1]]
    ELSE [S EXCEPT !.phase = "loop", !.iter_ctr = S.iter_ctr + 1,
                   !.worklist = @ \cup {S.popped},
                   !.streak = IF S.streak.fn = S.popped
                              THEN [fn |-> S.popped, n |-> S.streak.n + 1]
                              ELSE [fn |-> S.popped, n |-> 1]]

(***************************************************************************)
(* TaintState::new, from do_analysis_single_function or                    *)
(* do_analysis_multiple_functions                                          *)
(***************************************************************************)
Blank(i) ==
    [input |-> i, worklist |-> {}, taint_map |-> EmptyMap,
     tainted_terminators |-> EmptyMap, fn_summaries |-> EmptyMap, cells |-> <<>>,
     iter_ctr |-> 0, cur_fn |-> "", cur_block |-> 0, pc |-> 1, changed |-> FALSE,
     popped |-> "", phase |-> "loop", diag |-> "", streak |-> [fn |-> "", n |-> 0]]
\* a faulty initial worklist: the start function in both modes
InitialWorklistOfStart(i) == {Programs[i.prog].fns[1].name}
\* the initial worklist: the start function, or all functions of the modules
InitialWorklist(i) ==
    IF i.mode = "single" THEN {Programs[i.prog].fns[1].name}
    ELSE {Programs[i.prog].fns[j].name : j \in DOMAIN Programs[i.prog].fns}
\* the start function's initial map is `nonargs` with, when args = Some(..),
\* every parameter inserted; with neither, the map is empty (single function)
\* or there is no map (multiple functions)
WithState(i, M) ==
    [InsertState(Programs[i.prog].fns[1].name, M) EXCEPT
        !.worklist = InitialWorklist(i)]
\* `nonargs`: the seeded variables of the start function that are not
\* parameters, each a tainted value
SeededArgs(i) ==
    i.seeds \cap {Programs[i.prog].fns[1].params[j].n :
                     j \in DOMAIN Programs[i.prog].fns[1].params}
NonArgs(i) == [x \in i.seeds \ SeededArgs(i) |-> TaintedValue]
new(i) ==
    IF SeededArgs(i) # {}
    THEN WithState(i, ParamMap(Blank(i), Programs[i.prog].fns[1].params,
                               i.seeds, NonArgs(i)))
    ELSE IF i.mode = "single" \/ i.seeds # {}
    THEN WithState(i, [s |-> Blank(i), v |-> NonArgs(i)])
    ELSE [Blank(i) EXCEPT !.worklist = InitialWorklist(i)]

(***************************************************************************)
(* The state machine                                                       *)
(***************************************************************************)
Cur ==
    [input |-> input, worklist |-> worklist, taint_map |-> taint_map,
     tainted_terminators |-> tainted_terminators, fn_summaries |-> fn_summaries,
     cells |-> cells, iter_ctr |-> iter_ctr, cur_fn |-> cur_fn,
     cur_block |-> cur_block, pc |-> pc, changed |-> changed, popped |-> popped,
     phase |-> phase, diag |-> diag, streak |-> streak]
\* A scalar slot is the tag of a variable, of a summary parameter or of a
\* summary return, or the pointee seen through one of them.  Its chain is
\* absent < untainted < tainted; ViewLevels is the part of the chain reached.
ViewLevels(id, w) ==
    IF w.k = "none" THEN {}
    ELSE {<<id, "tag", 1>>}
         \cup (IF w.t THEN {<<id, "tag", 2>>} ELSE {})
         \cup (IF w.k \in Celled THEN {<<id, "pointee", 1>>} ELSE {})
         \cup (IF w.p THEN {<<id, "pointee", 2>>} ELSE {})
VarLevels(S, f) ==
    UNION { ViewLevels(<<"var", f, v>>, View(S, S.taint_map[f][v])) :
                v \in DOMAIN S.taint_map[f] }
SummaryLevels(S, g) ==
    UNION { ViewLevels(<<"param", g, ToString(i)>>, View(S, S.fn_summaries[g].params[i])) :
                i \in DOMAIN S.fn_summaries[g].params }
    \cup ViewLevels(<<"ret", g, "">>, View(S, S.fn_summaries[g].ret))
Levels(S) ==
    UNION { VarLevels(S, f) : f \in DOMAIN S.taint_map }
    \cup UNION { SummaryLevels(S, g) : g \in DOMAIN S.fn_summaries }
\* the slots that the step from S to T upgraded strictly
Raised(S, T) == { <<x[1], x[2]>> : x \in Levels(T) \ Levels(S) }
Counted(u, R) ==
    [x \in (DOMAIN u) \cup R |->
        (IF x \in DOMAIN u THEN u[x] ELSE 0) + (IF x \in R THEN 1 ELSE 0)]

\* A pop handles the popped name; a summary made for a name by another step
\* starts the name's history afresh.
Handled(h, S) ==
    IF phase = "loop" /\ S.phase # "done" THEN h \cup {S.popped}
    ELSE h \ (DOMAIN S.fn_summaries \ DOMAIN fn_summaries)
Becomes(S) ==
    /\ upgrades' = Counted(upgrades, Raised(Cur, S))
    /\ handled' = Handled(handled, S)
    /\ input' = S.input
    /\ worklist' = S.worklist
    /\ taint_map' = S.taint_map
    /\ tainted_terminators' = S.tainted_terminators
    /\ fn_summaries' = S.fn_summaries
    /\ cells' = S.cells
    /\ iter_ctr' = S.iter_ctr
    /\ cur_fn' = S.cur_fn
    /\ cur_block' = S.cur_block
    /\ pc' = S.pc
    /\ changed' = S.changed
    /\ popped' = S.popped
    /\ phase' = S.phase
    /\ diag' = S.diag
    /\ streak' = S.streak
Starts(S) ==
    /\ upgrades = EmptyMap
    /\ handled = {}
    /\ input = S.input
    /\ worklist = S.worklist
    /\ taint_map = S.taint_map
    /\ tainted_terminators = S.tainted_terminators
    /\ fn_summaries = S.fn_summaries
    /\ cells = S.cells
    /\ iter_ctr = S.iter_ctr
    /\ cur_fn = S.cur_fn
    /\ cur_block = S.cur_block
    /\ pc = S.pc
    /\ changed = S.changed
    /\ popped = S.popped
    /\ phase = S.phase
    /\ diag = S.diag
    /\ streak = S.streak

Init == \E i \in Inputs : Starts(new(i))

\* the worklist pops some queued name (the order is the worklist's choice)
Pop ==
    /\ phase = "loop"
    /\ \E fn_name \in worklist : Becomes(PopFunction(Cur, fn_name))
Instruction ==
    /\ phase = "pass"
    /\ pc <= Len(CurBlock(Cur).instrs)
    /\ Becomes(StepInstruction(Cur))
Terminator ==
    /\ phase = "pass"
    /\ pc > Len(CurBlock(Cur).instrs)
    /\ Becomes(StepTerminator(Cur))
Requeue ==
    /\ phase = "endpop"
    /\ Becomes(EndPop(Cur))
\* `None => break`: the worklist is empty and compute() returns
Return ==
    /\ phase = "loop"
    /\ worklist = {}
    /\ Becomes([Cur EXCEPT !.phase = "done"])

Next == Pop \/ Instruction \/ Terminator \/ Requeue \/ Return
Spec == Init /\ [][Next]_vars
\* compute() is a loop of a single thread: a step that can be taken is taken.
\* This is weak fairness of Next with its enabling condition written out: a
\* step of Next is possible exactly when compute() has neither returned nor
\* panicked, and every step of Next changes the state.
Stopped == phase \in {"done", "panic"}
FairSpec == Spec /\ ([]<>Stopped \/ []<><<Next>>_vars)

(***************************************************************************)
(* Replaying compute() on a state record: a whole pass over the popped     *)
(* function, a whole iteration of the loop, the loop to its end with the   *)
(* worklist's choice fixed.                                                *)
(***************************************************************************)
\* `for bb in &f.basic_blocks { for inst in &bb.instrs {..} terminator }`
RECURSIVE RunPass(_)
RunPass(S) ==
    IF S.phase # "pass" THEN S
    ELSE IF S.pc <= Len(CurBlock(S).instrs) THEN RunPass(StepInstruction(S))
    ELSE RunPass(StepTerminator(S))
\* one iteration of the loop of compute() for the popped name fn_name
AfterPass(S) == IF S.phase = "endpop" THEN EndPop(S) ELSE S
Iteration(S, fn_name) == AfterPass(RunPass(PopFunction(S, fn_name)))
\* compute() with a worklist that pops the name CHOOSE picks
RECURSIVE RunCompute(_)
RunCompute(S) ==
    IF S.phase # "loop" THEN S
    ELSE IF S.worklist = {} THEN [S EXCEPT !.phase = "done"]
    ELSE RunCompute(Iteration(S, CHOOSE fn_name \in S.worklist : TRUE))
\* the pass over fn_name that a second compute() makes on a finished state
Repass(S, fn_name) == RunPass(PopFunction([S EXCEPT !.phase = "loop"], fn_name))

(***************************************************************************)
(* Observations of a state record                                          *)
(***************************************************************************)
\* into_taint_result: what the caller of the analysis sees of the result
VarViews(S) ==
    [f \in DOMAIN S.taint_map |->
        [v \in DOMAIN S.taint_map[f] |-> View(S, S.taint_map[f][v])]]
SummaryViews(S) ==
    [g \in DOMAIN S.fn_summaries |->
        [params |-> [i \in DOMAIN S.fn_summaries[g].params |->
                        View(S, S.fn_summaries[g].params[i])],
         ret |-> View(S, S.fn_summaries[g].ret)]]
\* is the operand `op` of function f tainted / does it point to a tainted pointee
OpTainted(S, f, op) ==
    op # K /\ op \in DOMAIN S.taint_map[f] /\ S.taint_map[f][op].t
PointeeTainted(S, f, op) ==
    /\ op \in DOMAIN S.taint_map[f]
    /\ S.taint_map[f][op].k = "ptr"
    /\ S.cells[S.taint_map[f][op].c].t
\* the functions with a taint state, all of them defined
Analysed(S) == DOMAIN S.taint_map
InstrsOf(S, f) == AllInstrs(get_func_by_name(S, f))
RetOperands(S, g) ==
    { get_func_by_name(S, g).blocks[b].term.ops[1] :
        b \in { j \in DOMAIN get_func_by_name(S, g).blocks :
                    /\ get_func_by_name(S, g).blocks[j].term.op = "ret"
                    /\ get_func_by_name(S, g).blocks[j].term.ops # <<>> } }
Running(fns) == Programs[input.prog].fns = fns
Done == phase = "done"

(***************************************************************************)
(* Properties                                                              *)
(***************************************************************************)
\* the flow condition of one instruction `ins` of the analysed function f
FlowHolds(S, f, ins) ==
    CASE ins.op \in {"bin", "un"} ->
            (\E i \in DOMAIN ins.ops : OpTainted(S, f, ins.ops[i]))
                => OpTainted(S, f, ins.dst)
      [] ins.op = "store" ->
            OpTainted(S, f, ins.ops[1]) => PointeeTainted(S, f, ins.ops[2])
      [] ins.op = "load" ->
            PointeeTainted(S, f, ins.ops[1]) => OpTainted(S, f, ins.dst)
      [] ins.op = "call" /\ IsDefined(S, ins.callee) ->
            /\ ins.callee \in Analysed(S)
            /\ \A i \in DOMAIN ins.ops :
                    OpTainted(S, f, ins.ops[i])
                        => OpTainted(S, ins.callee,
                                     get_func_by_name(S, ins.callee).params[i].n)
            /\ ins.dst # "" =>
                    \A r \in RetOperands(S, ins.callee) :
                        OpTainted(S, ins.callee, r) => OpTainted(S, f, ins.dst)
      [] OTHER -> TRUE
ExplicitFlowsHold(S) ==
    \A f \in Analysed(S) : \A ins \in InstrsOf(S, f) : FlowHolds(S, f, ins)

\* C1: when compute() has returned, every instruction of every analysed
\* function satisfies its explicit-flow condition: a tainted binary/unary
\* operand taints the result, a tainted stored value taints the pointee cell
\* and a tainted pointee cell taints what is loaded from it, a tainted call
\* argument taints the callee's parameter and a tainted returned value taints
\* the caller's destination.
C1_ExplicitFlowSound == Done => ExplicitFlowsHold(Cur)
\* a finished run in which taint went from the seeded %t of f into g, through
\* g's body and back into f's destination
C1_Witness ==
    /\ Done
    /\ Running(<<FnCallG, FnRetArg>>)
    /\ input.seeds = {"t"}
    /\ OpTainted(Cur, "g", "a") /\ OpTainted(Cur, "g", "b")
    /\ OpTainted(Cur, "f", "r")

\* one step never lowers what is seen of a variable, a summary slot or a
\* terminator flag
StepIsMonotone ==
    /\ \A f \in DOMAIN taint_map :
        /\ f \in DOMAIN taint_map'
        /\ \A v \in DOMAIN taint_map[f] :
            /\ v \in DOMAIN taint_map'[f]
            /\ Leq(View([cells |-> cells], taint_map[f][v]),
                   View([cells |-> cells'], taint_map'[f][v]))
    /\ \A g \in DOMAIN fn_summaries :
        /\ g \in DOMAIN fn_summaries'
        /\ DOMAIN fn_summaries'[g].params = DOMAIN fn_summaries[g].params
        /\ \A i \in DOMAIN fn_summaries[g].params :
            Leq(View([cells |-> cells], fn_summaries[g].params[i]),
                View([cells |-> cells'], fn_summaries'[g].params[i]))
        /\ Leq(View([cells |-> cells], fn_summaries[g].ret),
               View([cells |-> cells'], fn_summaries'[g].ret))
    /\ \A f \in DOMAIN tainted_terminators :
        /\ f \in DOMAIN tainted_terminators'
        /\ tainted_terminators[f] \subseteq tainted_terminators'[f]
\* C2: every step of the analysis (a pop, an instruction, a terminator, the
\* end of a pop) leaves the tainted type of every variable, the pointee seen
\* through every pointer, every summary parameter and return slot and every
\* terminator flag unchanged or upgrades it; nothing is ever lowered.
C2_Monotone == [][StepIsMonotone]_vars
\* a state after strict upgrades: a variable, a pointee, a summary slot and a
\* terminator flag that all started untainted are tainted
C2_Witness ==
    /\ Running(<<FnShareF, FnShareG>>)
    /\ input.seeds = {"t"}
    /\ Done
    /\ PointeeTainted(Cur, "f", "p")
    /\ OpTainted(Cur, "f", "r")
    /\ fn_summaries["f"].ret.t
    /\ "entry" \in tainted_terminators["f"]

\* C3 (as the code has it violated): on well-formed input with a supported
\* policy the only way compute() stops is by its worklist becoming empty; it
\* never stops by the iteration guard's panic.
C3_HaltsByEmptyWorklist == phase = "panic" => diag # "Infinite analysis"

\* the pass reported no change and updated nothing
NoUpdate(S, R) ==
    /\ R.phase = "endpop"
    /\ ~R.changed
    /\ VarViews(R) = VarViews(S)
    /\ SummaryViews(R) = SummaryViews(S)
    /\ R.tainted_terminators = S.tainted_terminators
\* C4 (as the code has it violated): once compute() has returned, a further
\* pass over any function that has a taint state or a summary reports no
\* change and updates nothing.
C4_ReanalysisIsIdle ==
    Done => \A fn_name \in DOMAIN fn_summaries \cup DOMAIN taint_map :
                NoUpdate(Cur, Repass(Cur, fn_name))

\* the two finished runs have the same result
SameResult(S, R) ==
    R.phase = "done" =>
        /\ VarViews(R) = VarViews(S)
        /\ SummaryViews(R) = SummaryViews(S)
        /\ R.tainted_terminators = S.tainted_terminators
\* C5 (as the code has it violated): whatever order the worklist popped the
\* names in, the finished run has the result of the run that pops the names in
\* one fixed order.
C5_OrderIndependent == Done => SameResult(Cur, RunCompute(new(input)))

\* C6 (as the code has it violated): the guard's panic is raised only after
\* one function reported a change on two or more consecutive pops.
C6_GuardOnlyOnOneFunction == diag = "Infinite analysis" => streak.n >= 2

\* a store in f1 and a load in f2 whose addresses are handles to one cell
SameCell(S, f1, st, f2, ld) ==
    /\ st.op = "store" /\ ld.op = "load"
    /\ st.ops[2] \in DOMAIN S.taint_map[f1] /\ S.taint_map[f1][st.ops[2]].k = "ptr"
    /\ ld.ops[1] \in DOMAIN S.taint_map[f2] /\ S.taint_map[f2][ld.ops[1]].k = "ptr"
    /\ S.taint_map[f1][st.ops[2]].c = S.taint_map[f2][ld.ops[1]].c
SharingHolds(S) ==
    \A f1 \in Analysed(S), f2 \in Analysed(S) :
        \A st \in InstrsOf(S, f1), ld \in InstrsOf(S, f2) :
            SameCell(S, f1, st, f2, ld) /\ OpTainted(S, f1, st.ops[1])
                => OpTainted(S, f2, ld.dst)
\* a step that taints the pointee seen through a pointer variable of f leaves
\* f on the worklist
UpgradeRequeues ==
    \A f \in DOMAIN taint_map : \A v \in DOMAIN taint_map[f] :
        /\ taint_map[f][v].k = "ptr"
        /\ ~cells[taint_map[f][v].c].t
        /\ taint_map'[f][v].k = "ptr"
        /\ cells'[taint_map'[f][v].c].t
        => f \in worklist'
\* C7: pointers unified by a join are handles to one cell, so when compute()
\* has returned a tainted value stored through one of them, in any function,
\* has tainted what is loaded through the other; and every step that taints
\* the pointee of a pointer a function holds puts that function on the
\* worklist.
C7_SharingSound == [](Done => SharingHolds(Cur)) /\ [][UpgradeRequeues]_vars
\* f's alloca %p and g's parameter %q were unified by the call; g stored the
\* tainted %v through %q and f's load through %p saw it
C7_Witness ==
    /\ Done
    /\ Running(<<FnShareF, FnShareG>>)
    /\ input.seeds = {"t"}
    /\ taint_map["f"]["p"].c = taint_map["g"]["q"].c
    /\ OpTainted(Cur, "g", "v")
    /\ OpTainted(Cur, "f", "r")

\* the transfer function of the next instruction or terminator fails
FailsNow ==
    /\ phase = "pass"
    /\ IF pc <= Len(CurBlock(Cur).instrs)
       THEN process_instruction(Cur, CurBlock(Cur).instrs[pc]).e # ""
       ELSE process_terminator(Cur, CurBlock(Cur).term).e # ""
\* C8: a step whose transfer function fails (an Err or an unsupported
\* construct) ends in the panic state; no step leaves the panic state, and
\* compute() returns only from its loop with no diagnostic: processing never
\* continues after an error and no result is produced.
C8_ErrorsAbort ==
    [][/\ phase # "panic"
       /\ FailsNow => (phase' = "panic" /\ diag' # "" /\ pc' = pc
                        /\ cur_block' = cur_block /\ worklist' = worklist)
       /\ phase' = "done" => (phase = "loop" /\ diag = "")]_vars
\* the load through a scalar failed after the add before it had been
\* processed: the add after it never ran
C8_Witness ==
    /\ phase = "panic" /\ diag = "error"
    /\ Running(<<FnBadLoad, FnMissing, FnUnsupported, FnAsm, FnNumbered, FnPtrToInt,
                 FnBitCast, FnMismatch, FnBadStore, FnBadTerm>>)
    /\ cur_fn = "f" /\ pc = 2
    /\ "y" \in DOMAIN taint_map["f"]
    /\ "z" \notin DOMAIN taint_map["f"]

\* the result of a binary operation is the join of its operands
BinaryIsJoin(S) ==
    \A f \in Analysed(S) : \A ins \in InstrsOf(S, f) :
        ins.op = "bin" =>
            /\ ins.dst \in DOMAIN S.taint_map[f]
            /\ S.taint_map[f][ins.dst].t
                <=> (OpTainted(S, f, ins.ops[1]) \/ OpTainted(S, f, ins.ops[2]))
\* update_var joins the operands' join into the type the result variable
\* already has, so a result variable seeded through `nonargs` stays tainted
BinaryJoinsIntoResult(S) ==
    \A f \in Analysed(S) : \A ins \in InstrsOf(S, f) :
        ins.op = "bin" =>
            /\ ins.dst \in DOMAIN S.taint_map[f]
            /\ S.taint_map[f][ins.dst].t
                <=> \/ OpTainted(S, f, ins.ops[1])
                    \/ OpTainted(S, f, ins.ops[2])
                    \/ /\ f = Programs[S.input.prog].start
                       /\ ins.dst \in S.input.seeds
\* `%y = add %x, 1; ret %y` with %x seeded tainted
DirectExample ==
    Running(<<FnDirect>>) /\ "x" \in input.seeds =>
        /\ fn_summaries["f"].params = <<TaintedValue>>
        /\ fn_summaries["f"].ret = TaintedValue
        /\ taint_map["f"]["y"] = TaintedValue
\* C9: when compute() has returned, the function `%y = add %x, 1; ret %y`
\* with %x seeded tainted has summary parameter Tainted, summary return
\* Tainted and %y = TaintedValue; and the result of every binary operation is
\* tainted iff at least one of its operands is tainted or the result variable
\* was itself seeded tainted.
C9_DirectPropagation == Done => BinaryJoinsIntoResult(Cur) /\ DirectExample
\* C9 as stated: the result of every binary operation is tainted iff at least
\* one of its operands is tainted (fails for `%y = add %x, 1` with %y seeded)
C9_OperandsOnly == Done => BinaryIsJoin(Cur) /\ DirectExample
C9_Witness ==
    /\ Done
    /\ Running(<<FnDirect>>)
    /\ input.seeds = {"x"}
    /\ taint_map["f"]["y"] = TaintedValue
    /\ fn_summaries["f"].ret = TaintedValue

\* nothing is tainted
AllUntainted(S) ==
    /\ \A f \in DOMAIN S.taint_map : \A v \in DOMAIN S.taint_map[f] :
            ~S.taint_map[f][v].t
    /\ \A c \in DOMAIN S.cells : ~S.cells[c].t
    /\ \A g \in DOMAIN S.fn_summaries :
        /\ ~S.fn_summaries[g].ret.t
        /\ \A i \in DOMAIN S.fn_summaries[g].params : ~S.fn_summaries[g].params[i].t
    /\ \A f \in DOMAIN S.tainted_terminators : S.tainted_terminators[f] = {}
\* C10: with no variable seeded tainted and external functions not handled by
\* IgnoreAndReturnTainted, in every reachable state every variable, pointee
\* cell and summary slot is untainted and no terminator is marked tainted.
C10_NoSpuriousTaint ==
    input.seeds = {} /\ input.policy # "IgnoreAndReturnTainted" => AllUntainted(Cur)
\* a finished unseeded run that called an external function and compared its
\* result
C10_Witness ==
    /\ Done
    /\ Running(<<FnCallExt>>)
    /\ input.seeds = {}
    /\ input.policy = "PropagateTaintShallow"
    /\ "h" \in DOMAIN fn_summaries
    /\ "z" \in DOMAIN taint_map["f"]

\* a load through an untainted pointer gives its result the pointee type of
\* the pointer's cell
LoadReadsPointee(S) ==
    \A f \in Analysed(S) : \A ins \in InstrsOf(S, f) :
        /\ ins.op = "load"
        /\ ins.ops[1] \in DOMAIN S.taint_map[f]
        /\ S.taint_map[f][ins.ops[1]].k = "ptr"
        /\ ~S.taint_map[f][ins.ops[1]].t
        => /\ ins.dst \in DOMAIN S.taint_map[f]
           /\ S.taint_map[f][ins.dst] = S.cells[S.taint_map[f][ins.ops[1]].c]
\* `%p = alloca; store %x, %p; %r = load %p` with %x seeded tainted
StoreExample ==
    Running(<<FnMem>>) /\ "x" \in input.seeds =>
        /\ View(Cur, taint_map["f"]["p"]) = [k |-> "ptr", t |-> FALSE, p |-> TRUE]
        /\ cells[taint_map["f"]["p"].c] = TaintedValue
        /\ taint_map["f"]["r"] = TaintedValue
\* C11: when compute() has returned, `%p = alloca; store %x, %p; %r = load %p`
\* with %x tainted has %p = UntaintedPointer(TaintedValue) (the pointer's tag
\* untainted, its pointee tainted) and %r = TaintedValue; and the result of
\* every load through an untainted pointer has the pointee type of the
\* pointer's cell.
C11_StoreThroughPointer == Done => StoreExample /\ LoadReadsPointee(Cur)
\* the finished run of the example: the pointee of %p and both loads tainted,
\* the tag of %p untainted
C11_Witness ==
    /\ Done
    /\ Running(<<FnMem>>)
    /\ input.seeds = {"x"}
    /\ ~taint_map["f"]["p"].t
    /\ PointeeTainted(Cur, "f", "p")
    /\ OpTainted(Cur, "f", "r")
    /\ OpTainted(Cur, "f", "r0")

\* block b of the analysed function f is control-dependent on a block whose
\* terminator is marked tainted
CtrlDepOnTainted(S, f, b) ==
    \E dep \in get_func_by_name(S, f).cdg[b] : dep \in S.tainted_terminators[f]
\* the result of the Phi `ins` of block `blk` of f is tainted iff an incoming
\* value is, or the block or an incoming block is control-dependent on a
\* tainted terminator
PhiHolds(S, f, blk, ins) ==
    /\ ins.dst \in DOMAIN S.taint_map[f]
    /\ S.taint_map[f][ins.dst].t
        <=> \/ \E i \in DOMAIN ins.ops : OpTainted(S, f, ins.ops[i])
            \/ CtrlDepOnTainted(S, f, blk.name)
            \/ \E i \in DOMAIN ins.preds : CtrlDepOnTainted(S, f, ins.preds[i])
PhisHold(S) ==
    \A f \in Analysed(S) : \A b \in DOMAIN get_func_by_name(S, f).blocks :
        \A ins \in Range(get_func_by_name(S, f).blocks[b].instrs) :
            ins.op = "phi" => PhiHolds(S, f, get_func_by_name(S, f).blocks[b], ins)
\* the diamond with a tainted branch condition: the Phi of the merge block is
\* tainted, the Phi of the block after it takes the type of its incoming value
PhiExamples ==
    /\ Running(<<FnPhi>>) /\ "c" \in input.seeds =>
            /\ taint_map["f"]["ph"] = TaintedValue
            /\ taint_map["f"]["pe"].t <=> "b" \in input.seeds
    /\ Running(<<FnLoopPhi>>) /\ "c" \in input.seeds =>
            taint_map["f"]["ph"] = TaintedValue
\* C12: when compute() has returned, the result of every Phi (none of which is
\* seeded) is tainted iff one of its incoming values is tainted or its block
\* or one of its incoming blocks is control-dependent on a block whose
\* terminator is tainted; this holds for a Phi that comes before the tainted
\* terminator in the function, and a Phi with untainted incoming values and
\* no such control dependence is untainted.
C12_PhiImplicitFlow == Done => PhisHold(Cur) /\ PhiExamples
\* the loop header's Phi was processed before the header's branch was marked
\* tainted and is tainted in the finished run, its incoming values untainted
C12_Witness ==
    /\ Done
    /\ Running(<<FnLoopPhi>>)
    /\ input.seeds = {"c"}
    /\ tainted_terminators["f"] = {"H", "X"}
    /\ ~OpTainted(Cur, "f", "b")
    /\ OpTainted(Cur, "f", "ph")

\* a slot of the summary of g in the summaries `sums`
SumParamTainted(sums, g) ==
    g \in DOMAIN sums /\ \E i \in DOMAIN sums[g].params : sums[g].params[i].t
SumRetTainted(sums, g) == g \in DOMAIN sums /\ sums[g].ret.t
VarTainted(map, f, v) == f \in DOMAIN map /\ v \in DOMAIN map[f] /\ map[f][v].t
\* the calls of defined functions in the analysed program: <<caller, call>>
DefinedCalls ==
    { fc \in UNION { {<<f, ins>> : ins \in InstrsOf(Cur, f)} : f \in FnNames(Cur) } :
        fc[2].op = "call" /\ IsDefined(Cur, fc[2].callee) }
\* the order of the upgrades along a call: an instruction that taints a
\* parameter slot of g's summary leaves g on the worklist; g's return slot is
\* tainted only by g's own pass, which leaves g's callers on the worklist; the
\* destination of a call of g is tainted only by the caller's pass, from a
\* return slot tainted before
CallChainStep ==
    /\ \A g \in FnNames(Cur) :
        /\ SumParamTainted(fn_summaries', g) /\ ~SumParamTainted(fn_summaries, g)
            /\ phase = "pass"
            => g \in worklist'
        /\ SumRetTainted(fn_summaries', g) /\ ~SumRetTainted(fn_summaries, g)
            => phase = "pass" /\ cur_fn = g /\ callers(Cur, g) \subseteq worklist'
    /\ \A fc \in DefinedCalls :
        /\ fc[2].dst # ""
        /\ VarTainted(taint_map', fc[1], fc[2].dst)
        /\ ~VarTainted(taint_map, fc[1], fc[2].dst)
        => /\ phase = "pass" /\ cur_fn = fc[1]
           /\ SumRetTainted(fn_summaries, fc[2].callee)
\* f passes the seeded %t to g, which returns its argument
SummaryExampleRuns == Running(<<FnCallG, FnRetArg>>) /\ "t" \in input.seeds
SummaryExample ==
    SummaryExampleRuns /\ Done =>
        /\ fn_summaries["g"].params = <<TaintedValue>>
        /\ fn_summaries["g"].ret = TaintedValue
        /\ taint_map["f"]["r"] = TaintedValue
\* C13: when f passes a tainted value to the defined g that returns its
\* argument, compute() returns, and then g's summary parameter and return are
\* Tainted and the destination of f's call is tainted; on the way, the
\* instruction that taints g's summary parameter leaves g on the worklist,
\* g's return slot is tainted by g's pass, which leaves f on the worklist, and
\* the destination is tainted by a pass of f after that.
C13_InterproceduralSummary ==
    /\ []SummaryExample
    /\ [][CallChainStep]_vars
    /\ (SummaryExampleRuns ~> Done)
\* the finished run of the example, started from all functions with g popped
\* first, so that g's summary existed before f's call tainted its parameter
C13_Witness ==
    /\ Done
    /\ SummaryExampleRuns
    /\ input.mode = "multiple"
    /\ fn_summaries["g"].params = <<TaintedValue>>
    /\ fn_summaries["g"].ret = TaintedValue
    /\ OpTainted(Cur, "f", "r")
    /\ iter_ctr >= 4

\* f calls the external h(%t, %u) under PropagateTaintShallow
ShallowExampleRuns ==
    Running(<<FnCallExt>>) /\ input.policy = "PropagateTaintShallow"
\* C14 (as the code has it violated): when compute() has returned, the
\* destination of f's call of the external h, handled by
\* PropagateTaintShallow, is TaintedValue if an argument of the call is
\* tainted and untainted if none is (and the destination was not seeded).
C14_ShallowTaintsResult ==
    Done /\ ShallowExampleRuns /\ "r" \notin input.seeds =>
        taint_map["f"]["r"].t
            <=> (OpTainted(Cur, "f", "t") \/ OpTainted(Cur, "f", "u"))

\* the policies the engine rejects, and the panic of each
Rejected == input.policy \in {"PropagateTaintDeep", "Panic"}
RejectDiag == IF input.policy = "PropagateTaintDeep" THEN "unimplemented" ELSE "policy"
\* the programs that call an external function, by name or through a pointer
\* with no candidate target
CallsExternal == Running(<<FnCallExt>>) \/ Running(<<FnIndirectExt>>)
\* the next instruction is a call through a pointer with no candidate target
AtUntargetedCall ==
    /\ phase = "pass"
    /\ pc <= Len(CurBlock(Cur).instrs)
    /\ CurBlock(Cur).instrs[pc].op = "icall"
    /\ functions_with_type(Cur, SigOfCall(CurFunc(Cur), CurBlock(Cur).instrs[pc]), 1) = <<>>
\* the step that handles an external function under a rejected policy (the
\* pop of its name, or the call through the pointer) panics and updates nothing
RejectStep ==
    /\ Rejected
    /\ vars' # vars
    /\ \/ phase = "loop" /\ phase' # "done" /\ popped' \notin FnNames(Cur)
       \/ AtUntargetedCall
    => /\ phase' = "panic"
       /\ diag' = RejectDiag
       /\ taint_map' = taint_map
       /\ fn_summaries' = fn_summaries
       /\ cells' = cells
\* C15: under PropagateTaintDeep or Panic, the step that handles an external
\* function (the pop of its name from the worklist, or a call through a
\* pointer with no candidate target) panics, as unimplemented or by the Panic
\* policy, and updates nothing; a run that calls an external function never
\* returns a result and ends in that panic.
C15_RejectedPolicies ==
    /\ [](Rejected /\ CallsExternal => ~Done)
    /\ [][RejectStep]_vars
    /\ (Rejected /\ CallsExternal ~> phase = "panic" /\ diag = RejectDiag)
\* the pop of the external h under PropagateTaintDeep panicked after the pass
\* of f that called it
C15_Witness ==
    /\ phase = "panic" /\ diag = "unimplemented"
    /\ Running(<<FnCallExt>>)
    /\ input.policy = "PropagateTaintDeep"
    /\ popped = "h"
    /\ "h" \in DOMAIN fn_summaries
    /\ "r" \in DOMAIN taint_map["f"]

\* function f has been through a whole pass: it has a taint state holding
\* the result of each of its instructions (but of the calls of the ignored
\* intrinsics, which give their result no type), and a summary
Processed(S, f) ==
    /\ f \in DOMAIN S.taint_map
    /\ f \in DOMAIN S.fn_summaries
    /\ \A ins \in InstrsOf(S, f) :
            (ins.dst # "" /\ ~(ins.op = "call" /\ IgnoredIntrinsic(ins.callee)))
                => ins.dst \in DOMAIN S.taint_map[f]
\* the state TaintState::new made: nothing has been popped yet
Fresh == popped = ""
\* C16: before the first pop the worklist is exactly the start function in
\* single-function mode and exactly the set of all defined functions in
\* multiple-function mode; and when compute() has returned, every defined
\* function (multiple-function mode) or the start function (single-function
\* mode) has been through a pass and has a taint state and a summary.
C16_InitialWorklist ==
    /\ Fresh /\ input.mode = "single" => worklist = {Programs[input.prog].start}
    /\ Fresh /\ input.mode = "multiple" => worklist = FnNames(Cur)
    /\ Done /\ input.mode = "single" => Processed(Cur, Programs[input.prog].start)
    /\ Done /\ input.mode = "multiple" => \A f \in FnNames(Cur) : Processed(Cur, f)
\* a finished run in multiple-function mode that processed k, which no
\* function calls
C16_Witness ==
    /\ Done
    /\ Running(<<FnDirect, FnLeaf("k")>>)
    /\ input.mode = "multiple"
    /\ Processed(Cur, "f")
    /\ Processed(Cur, "k")

(***************************************************************************)
(* C17  Upgrade bound.  Over a whole run of compute() the number of strict *)
(* lattice upgrades (of variables, of the pointees seen through them, of   *)
(* summary parameters and returns) is at most 2 x the number of scalar     *)
(* slots of the analysed program: only slots of the program are ever       *)
(* upgraded, and none more than twice (inserted, then tainted).            *)
(***************************************************************************)
\* the scalar slots of a variable, parameter or return of LLVM type llty
TypedSlots(id, llty) ==
    IF llty = "void" THEN {}
    ELSE {<<id, "tag">>} \cup (IF llty \in {"p", "a"} THEN {<<id, "pointee">>} ELSE {})
VarsOf(f) ==
    ({f.params[j].n : j \in DOMAIN f.params} \cup {ins.dst : ins \in AllInstrs(f)})
        \ {""}
FnSlots(f) ==
    UNION { TypedSlots(<<"var", f.name, v>>, OperandType(f, v)) : v \in VarsOf(f) }
    \cup UNION { TypedSlots(<<"param", f.name, ToString(j)>>, f.params[j].ty) :
                    j \in DOMAIN f.params }
    \cup TypedSlots(<<"ret", f.name, "">>, f.ret)
\* the summary that a call by name creates when the callee has none
CallSiteSlots(f, ins) ==
    UNION { TypedSlots(<<"param", ins.callee, ToString(j)>>, OperandType(f, ins.ops[j])) :
                j \in DOMAIN ins.ops }
    \cup TypedSlots(<<"ret", ins.callee, "">>, ins.ty)
SummarisingCalls(fns, f) ==
    { ins \in AllInstrs(f) :
        /\ ins.op = "call"
        /\ ins.callee \notin {InlineAsm, Numbered}
        /\ ~IgnoredIntrinsic(ins.callee)
        /\ ~IsMemset(ins.callee) }
ScalarSlots(fns) ==
    UNION { FnSlots(fns[j]) : j \in DOMAIN fns }
    \cup UNION { UNION { CallSiteSlots(fns[j], ins) : ins \in SummarisingCalls(fns, fns[j]) } :
                    j \in DOMAIN fns }
RECURSIVE SumOver(_, _)
SumPick(u, D, x) == u[x] + SumOver(u, D \ {x})
SumOver(u, D) == IF D = {} THEN 0 ELSE SumPick(u, D, CHOOSE x \in D : TRUE)
TotalUpgrades == SumOver(upgrades, DOMAIN upgrades)
C17_UpgradeBound ==
    /\ TotalUpgrades <= 2 * Cardinality(ScalarSlots(Programs[input.prog].fns))
    /\ DOMAIN upgrades \subseteq ScalarSlots(Programs[input.prog].fns)
    /\ \A x \in DOMAIN upgrades : upgrades[x] <= 2
\* a finished run in which a slot was upgraded twice
C17_Witness ==
    /\ Done
    /\ Running(<<FnCallG, FnRetArg>>)
    /\ <<<<"var", "f", "r">>, "tag">> \in DOMAIN upgrades
    /\ upgrades[<<<<"var", "f", "r">>, "tag">>] = 2
    /\ TotalUpgrades >= 8

(***************************************************************************)
(* C18  Shallow means shallow.  Under PropagateTaintShallow or             *)
(* IgnoreAndReturnTainted the step that handles an external function (the  *)
(* pop of its name; the call of it in the caller, by name or through a     *)
(* pointer with no candidate target) upgrades only the summary's slots and *)
(* the destination variable of the call.                                   *)
(***************************************************************************)
ShallowPolicy == input.policy \in {"PropagateTaintShallow", "IgnoreAndReturnTainted"}
\* the next instruction is a call of an external function by its name
AtExternalCall ==
    /\ phase = "pass"
    /\ pc <= Len(CurBlock(Cur).instrs)
    /\ CurBlock(Cur).instrs[pc].op = "call"
    /\ CurBlock(Cur).instrs[pc].callee \notin FnNames(Cur) \cup {InlineAsm, Numbered}
    /\ ~IgnoredIntrinsic(CurBlock(Cur).instrs[pc].callee)
    /\ ~IsMemset(CurBlock(Cur).instrs[pc].callee)
PopsExternal == phase = "loop" /\ phase' # "done" /\ popped' \notin FnNames(Cur)
\* the type ty is a pointer to the cell of a pointer argument of the call at pc
SharesArgument(ty) ==
    /\ ty.k = "ptr"
    /\ \E j \in DOMAIN CurBlock(Cur).instrs[pc].ops :
        /\ CurBlock(Cur).instrs[pc].ops[j] \in DOMAIN taint_map[cur_fn]
        /\ taint_map[cur_fn][CurBlock(Cur).instrs[pc].ops[j]].k = "ptr"
        /\ taint_map[cur_fn][CurBlock(Cur).instrs[pc].ops[j]].c = ty.c
\* no variable is added but the destination of the call, and every other
\* variable keeps its tag
TagsKept ==
    /\ DOMAIN taint_map' = DOMAIN taint_map
    /\ \A f \in DOMAIN taint_map :
        /\ DOMAIN taint_map'[f] \subseteq
                DOMAIN taint_map[f] \cup {CurBlock(Cur).instrs[pc].dst}
        /\ \A v \in DOMAIN taint_map[f] :
            \/ f = cur_fn /\ v = CurBlock(Cur).instrs[pc].dst
            \/ /\ taint_map'[f][v].k = taint_map[f][v].k
               /\ taint_map'[f][v].t = taint_map[f][v].t
\* the pointee seen through every variable is the same
PointeesKept ==
    \A f \in DOMAIN taint_map : \A v \in DOMAIN taint_map[f] :
        \/ f = cur_fn /\ v = CurBlock(Cur).instrs[pc].dst
        \/ View([cells |-> cells'], taint_map'[f][v]).p
                = View([cells |-> cells], taint_map[f][v]).p
\* ... but for the variables that hold the cell of a pointer argument
PointeesKeptButUnified ==
    \A f \in DOMAIN taint_map : \A v \in DOMAIN taint_map[f] :
        \/ f = cur_fn /\ v = CurBlock(Cur).instrs[pc].dst
        \/ SharesArgument(taint_map[f][v])
        \/ View([cells |-> cells'], taint_map'[f][v]).p
                = View([cells |-> cells], taint_map[f][v]).p
\* the summaries of the functions that are not called keep their views
OtherSummariesKept(g) ==
    \A h \in DOMAIN fn_summaries :
        h # g => /\ h \in DOMAIN fn_summaries'
                 /\ SummaryViews(Cur)'[h] = SummaryViews(Cur)[h]
\* ... but for the pointees of the parameters that hold the cell of a pointer
\* argument
OtherSummariesKeptButUnified(g) ==
    \A h \in DOMAIN fn_summaries :
        h # g =>
            /\ h \in DOMAIN fn_summaries'
            /\ SummaryViews(Cur)'[h].ret = SummaryViews(Cur)[h].ret
            /\ DOMAIN fn_summaries'[h].params = DOMAIN fn_summaries[h].params
            /\ \A i \in DOMAIN fn_summaries[h].params :
                /\ fn_summaries'[h].params[i].k = fn_summaries[h].params[i].k
                /\ fn_summaries'[h].params[i].t = fn_summaries[h].params[i].t
                /\ \/ SharesArgument(fn_summaries[h].params[i])
                   \/ SummaryViews(Cur)'[h].params[i].p = SummaryViews(Cur)[h].params[i].p
PopFrame ==
    PopsExternal =>
        /\ taint_map' = taint_map
        /\ cells' = cells
        /\ DOMAIN fn_summaries' = DOMAIN fn_summaries
        /\ OtherSummariesKept(popped')
        /\ popped' \in DOMAIN fn_summaries =>
                fn_summaries'[popped'].params = fn_summaries[popped'].params
UntargetedFrame ==
    AtUntargetedCall =>
        /\ cells' = cells
        /\ fn_summaries' = fn_summaries
        /\ TagsKept
        /\ PointeesKept
ShallowStep ==
    ShallowPolicy /\ vars' # vars =>
        /\ PopFrame
        /\ UntargetedFrame
        /\ AtExternalCall =>
            /\ TagsKept
            /\ PointeesKeptButUnified
            /\ OtherSummariesKeptButUnified(CurBlock(Cur).instrs[pc].callee)
ShallowStepStrict ==
    ShallowPolicy /\ vars' # vars =>
        /\ PopFrame
        /\ UntargetedFrame
        /\ AtExternalCall =>
            /\ TagsKept
            /\ PointeesKept
            /\ OtherSummariesKept(CurBlock(Cur).instrs[pc].callee)
RequeueOf ==
    /\ changed => worklist' = worklist \cup {popped}
    /\ ~changed => worklist' = worklist
RequeueStep == phase = "endpop" /\ vars' # vars => RequeueOf
\* the same, when the iteration guard does not end compute()
RequeueStepUnlessGuard ==
    phase = "endpop" /\ vars' # vars =>
        \/ RequeueOf /\ phase' = "loop"
        \/ /\ changed
           /\ iter_ctr' >= InfiniteAnalysisLimit
           /\ phase' = "panic"
           /\ worklist' = worklist
\* C19: after the popped name was handled, the outer loop puts it back on the
\* worklist if and only if the handling reported a change; with no change it
\* adds nothing.
C19_RequeueIffChanged == [][RequeueStep]_vars

(***************************************************************************)
(* C20  Direct call.  The step that processes a call of a named callee     *)
(* joins the argument types pointwise into the callee's summary            *)
(* parameters; on a strict upgrade of a parameter the callers of the       *)
(* callee and the callee are on the worklist afterwards; the destination   *)
(* is updated with the summary's return type.                              *)
(***************************************************************************)
CallAtPc == CurBlock(Cur).instrs[pc]
AtDirectCall ==
    /\ phase = "pass"
    /\ pc <= Len(CurBlock(Cur).instrs)
    /\ CallAtPc.op = "call"
    /\ CallAtPc.callee \notin {InlineAsm, Numbered}
    /\ ~IgnoredIntrinsic(CallAtPc.callee)
    /\ ~IsMemset(CallAtPc.callee)
\* the view of the j-th argument and of the j-th summary parameter before the
\* call (of the untainted parameter, when the callee has no summary yet)
ArgView(j) == View(Cur, get_type_of_operand(Cur, CallAtPc.ops[j]))
ParamViewBefore(j) ==
    IF CallAtPc.callee \in DOMAIN fn_summaries
    THEN View(Cur, fn_summaries[CallAtPc.callee].params[j])
    ELSE [ArgView(j) EXCEPT !.t = FALSE, !.p = FALSE]
ParamViewAfter(j) ==
    View([cells |-> cells'], fn_summaries'[CallAtPc.callee].params[j])
ParamsJoined ==
    /\ CallAtPc.callee \in DOMAIN fn_summaries'
    /\ DOMAIN fn_summaries'[CallAtPc.callee].params = DOMAIN CallAtPc.ops
    /\ \A j \in DOMAIN CallAtPc.ops :
        /\ ParamViewAfter(j).k = ParamViewBefore(j).k
        /\ ParamViewAfter(j).t = (ParamViewBefore(j).t \/ ArgView(j).t)
        /\ ParamViewAfter(j).p = (ParamViewBefore(j).p \/ ArgView(j).p)
ParamUpgraded ==
    \E j \in DOMAIN CallAtPc.ops : ParamViewAfter(j) # ParamViewBefore(j)
\* the destination holds the join of what it held and the summary's return
DestUpdated ==
    CallAtPc.dst # "" =>
        /\ CallAtPc.dst \in DOMAIN taint_map'[cur_fn]
        /\ taint_map'[cur_fn][CallAtPc.dst].t =
                (\/ fn_summaries'[CallAtPc.callee].ret.t
                 \/ /\ CallAtPc.dst \in DOMAIN taint_map[cur_fn]
                    /\ taint_map[cur_fn][CallAtPc.dst].t)
CallStepWith(untouched) ==
    AtDirectCall /\ vars' # vars /\ phase' # "panic" =>
        /\ ParamsJoined
        /\ ParamUpgraded =>
                callers(Cur, CallAtPc.callee) \cup {CallAtPc.callee} \subseteq worklist'
        /\ ~ParamUpgraded => untouched
        /\ DestUpdated
        /\ fn_summaries'[CallAtPc.callee].ret =
                IF CallAtPc.callee \in DOMAIN fn_summaries
                THEN fn_summaries[CallAtPc.callee].ret
                ELSE fn_summaries'[CallAtPc.callee].ret
\* C20 (as the code has it): when nothing is upgraded the worklist is left
\* alone, but for the callee that had no summary yet: it gets the untainted
\* summary and is put on the worklist.
C20_DirectCall ==
    [][CallStepWith(worklist' = IF CallAtPc.callee \in DOMAIN fn_summaries
                                THEN worklist
                                ELSE worklist \cup {CallAtPc.callee})]_vars
\* C20 (as stated): when nothing is upgraded the step leaves the worklist alone.
C20_WorklistUntouched == [][CallStepWith(worklist' = worklist)]_vars
\* f's call of g with the tainted %t upgraded g's summary parameter, g was
\* analysed again, and the call's destination %r took the summary's tainted
\* return
C20_Witness ==
    /\ Running(<<FnCallG, FnRetArg>>)
    /\ Done
    /\ fn_summaries["g"].params[1].t
    /\ fn_summaries["g"].ret.t
    /\ taint_map["f"]["r"].t

(***************************************************************************)
(* C21  Ret.  The step that processes a Ret of function F joins the type   *)
(* of the returned operand into F's summary return; when the summary       *)
(* return rises strictly, the callers of F are on the worklist afterwards  *)
(* and the step reports a change; a tainted returned operand marks the     *)
(* terminator of the block.                                                *)
(***************************************************************************)
AtTerminator(ops) ==
    /\ phase = "pass"
    /\ pc > Len(CurBlock(Cur).instrs)
    /\ CurBlock(Cur).term.op \in ops
RetOps == CurBlock(Cur).term.ops
RetOpView == View(Cur, get_type_of_operand(Cur, RetOps[1]))
RetViewBefore == View(Cur, fn_summaries[cur_fn].ret)
RetViewAfter == View([cells |-> cells'], fn_summaries'[cur_fn].ret)
RetJoined ==
    IF RetOps = <<>> \/ fn_summaries[cur_fn].ret = NoType
    THEN fn_summaries'[cur_fn].ret = fn_summaries[cur_fn].ret
    ELSE /\ RetViewAfter.k = RetViewBefore.k
         /\ RetViewAfter.t = (RetViewBefore.t \/ RetOpView.t)
         /\ RetViewAfter.p = (RetViewBefore.p \/ RetOpView.p)
RetStep ==
    AtTerminator({"ret"}) /\ vars' # vars /\ phase' # "panic" =>
        /\ cur_fn \in DOMAIN fn_summaries
        /\ RetJoined
        /\ RetViewAfter # RetViewBefore =>
                callers(Cur, cur_fn) \subseteq worklist' /\ changed'
        /\ RetOps # <<>> /\ RetOpView.t =>
                CurBlock(Cur).name \in tainted_terminators'[cur_fn]
\* C21: processing a Ret in F joins the returned operand's type into F's
\* summary return (a void Ret leaves the absent return as it is); whenever
\* the summary return strictly increases, every caller of F is on the
\* worklist immediately afterwards and the step reports a change; a tainted
\* returned operand marks the terminator of the current block.
C21_Ret == [][RetStep]_vars
\* g's Ret of the tainted %b has just upgraded g's summary return: the caller
\* f is queued, the pass reports a change and the terminator is marked
C21_Witness ==
    /\ Running(<<FnCallG, FnRetArg>>)
    /\ phase = "endpop"
    /\ popped = "g"
    /\ changed
    /\ fn_summaries["g"].ret.t
    /\ "f" \in worklist
    /\ "entry" \in tainted_terminators["g"]

(***************************************************************************)
(* C22  Parameter mirroring.  The prologue of a pass over F leaves every   *)
(* parameter variable and its summary slot with one type, the join of the  *)
(* two; an upgraded summary enqueues the callers of F; the upgrade of      *)
(* parameter variables is not a change of the pass.                        *)
(***************************************************************************)
Untainted(w) == [w EXCEPT !.t = FALSE, !.p = FALSE]
ParamVarAfter(f, i) == View([cells |-> cells'], taint_map'[f.name][f.params[i].n])
ParamSlotAfter(f, i) == View([cells |-> cells'], fn_summaries'[f.name].params[i])
\* the views before the pop; of the untainted type for a variable or a
\* summary that the prologue creates
ParamVarBefore(f, i) ==
    IF f.name \in DOMAIN taint_map /\ f.params[i].n \in DOMAIN taint_map[f.name]
    THEN View(Cur, taint_map[f.name][f.params[i].n])
    ELSE Untainted(ParamVarAfter(f, i))
ParamSlotBefore(f, i) ==
    IF f.name \in DOMAIN fn_summaries
    THEN View(Cur, fn_summaries[f.name].params[i])
    ELSE Untainted(ParamSlotAfter(f, i))
Mirrored(f) ==
    /\ \A i \in DOMAIN f.params :
        /\ ParamVarAfter(f, i) = ParamSlotAfter(f, i)
        /\ ParamVarAfter(f, i).t = (ParamVarBefore(f, i).t \/ ParamSlotBefore(f, i).t)
        /\ ParamVarAfter(f, i).p = (ParamVarBefore(f, i).p \/ ParamSlotBefore(f, i).p)
    /\ (\E i \in DOMAIN f.params : ParamSlotAfter(f, i) # ParamSlotBefore(f, i))
            => callers(Cur, f.name) \subseteq worklist'
    /\ ~changed'
MirrorStep ==
    phase = "loop" /\ phase' = "pass" =>
        \A j \in DOMAIN TheFns(Cur) :
            TheFns(Cur)[j].name = cur_fn' => Mirrored(TheFns(Cur)[j])
\* between S and the end P of a pass over f, only parameter variables of f
\* were upgraded
OnlyParamsUpgraded(S, P, f) ==
    /\ f.name \in DOMAIN S.taint_map
    /\ DOMAIN VarViews(P) = DOMAIN VarViews(S)
    /\ \A g \in DOMAIN S.taint_map :
        /\ DOMAIN P.taint_map[g] = DOMAIN S.taint_map[g]
        /\ \A v \in DOMAIN S.taint_map[g] :
            \/ g = f.name /\ v \in Range(ParamNames(f))
            \/ VarViews(P)[g][v] = VarViews(S)[g][v]
    /\ SummaryViews(P) = SummaryViews(S)
    /\ P.tainted_terminators = S.tainted_terminators
    /\ \E v \in Range(ParamNames(f)) : VarViews(P)[f.name][v] # VarViews(S)[f.name][v]
NotReadded(S, P, f) ==
    P.phase = "endpop" /\ OnlyParamsUpgraded(S, P, f) =>
        ~P.changed /\ EndPop(P).worklist = P.worklist
MirrorOnlyPasses ==
    phase = "loop" =>
        \A j \in DOMAIN TheFns(Cur) :
            TheFns(Cur)[j].name \in worklist =>
                NotReadded(Cur, RunPass(PopFunction(Cur, TheFns(Cur)[j].name)),
                           TheFns(Cur)[j])
\* C22: at the start of every pass over a defined function F, before any
\* instruction is processed, each parameter variable of F and its summary
\* slot hold the same type, the join of their two previous values; if this
\* upgraded the summary, all callers of F are on the worklist; the upgrade of
\* parameter variables is no change of the pass, and a pass in which only
\* parameter variables were upgraded reports no change and the outer loop
\* does not put F back.
C22_ParameterMirroring == [][MirrorStep]_vars /\ []MirrorOnlyPasses
\* g2 returns a constant; the pass over it that mirrored the tainted summary
\* parameter into %a has ended with no change reported
C22_Witness ==
    /\ Running(<<FnIndirect, FnRetArg, FnConst("g2")>>)
    /\ phase = "endpop"
    /\ popped = "g2"
    /\ ~changed
    /\ taint_map["g2"]["a"].t
    /\ <<<<"var", "g2", "a">>, "tag">> \in DOMAIN upgrades
    /\ upgrades[<<<<"var", "g2", "a">>, "tag">>] = 2
    /\ "g2" \notin worklist

(***************************************************************************)
(* C23  Store under tainted control.  A Store in a block that is           *)
(* control-dependent on a tainted terminator updates the pointee cell of   *)
(* its address with the tainted upgrade of the stored value; elsewhere     *)
(* with the stored value's type as it is; the cell becomes the join of its *)
(* old type and the update.                                                *)
(***************************************************************************)
InsAtPc == CurBlock(Cur).instrs[pc]
AtInstruction(ops) ==
    /\ phase = "pass"
    /\ pc <= Len(CurBlock(Cur).instrs)
    /\ InsAtPc.op \in ops
\* the pointee seen through the variable `addr` of the current function
PointeeBefore(addr) == View(Cur, taint_map[cur_fn][addr]).p
PointeeAfter(addr) == View([cells |-> cells'], taint_map'[cur_fn][addr]).p
\* the step stored a value of tag `tainted` through `addr`
StoredThrough(addr, tainted) ==
    /\ PointeeAfter(addr) =
            (\/ PointeeBefore(addr)
             \/ tainted
             \/ CtrlDepOnTainted(Cur, cur_fn, CurBlock(Cur).name))
    /\ taint_map'[cur_fn][addr].t = taint_map[cur_fn][addr].t
    /\ changed' = (changed \/ (PointeeAfter(addr) # PointeeBefore(addr)))
StoreStep ==
    AtInstruction({"store"}) /\ vars' # vars /\ phase' # "panic" =>
        StoredThrough(InsAtPc.ops[2], get_type_of_operand(Cur, InsAtPc.ops[1]).t)
\* when compute() has returned, the pointee of the address of every Store
\* under a tainted terminator is tainted
ControlledStoresTaint(S) ==
    \A f \in Analysed(S) :
        \A b \in DOMAIN get_func_by_name(S, f).blocks :
            \A ins \in Range(get_func_by_name(S, f).blocks[b].instrs) :
                /\ ins.op = "store"
                /\ CtrlDepOnTainted(S, f, get_func_by_name(S, f).blocks[b].name)
                => PointeeTainted(S, f, ins.ops[2])
\* C23: a Store whose block is control-dependent on a block with a tainted
\* terminator updates the address's pointee cell with the tainted upgrade of
\* the stored value, so that when compute() has returned the cell is tainted
\* even when the stored value is not; a Store in a block that is not
\* control-dependent on a tainted terminator updates the cell with the
\* stored value's type as is; in both cases the cell becomes the join of
\* its old type and the update.
C23_StoreUnderTaintedControl ==
    [][StoreStep]_vars /\ [](Done => ControlledStoresTaint(Cur))
\* only the branch condition %c is tainted: the cell of %p, stored to under
\* the branch, is tainted and the cell of %p2, stored to before it, is not
C23_Witness ==
    /\ Running(<<FnCtrlStore>>)
    /\ Done
    /\ input.seeds = {"c"}
    /\ ~taint_map["f"]["x"].t
    /\ PointeeTainted(Cur, "f", "p")
    /\ ~PointeeTainted(Cur, "f", "p2")
    /\ taint_map["f"]["r"].t
    /\ ~taint_map["f"]["r2"].t

(***************************************************************************)
(* C24  llvm.memset is treated like Store, the implicit-flow rule          *)
(* included.                                                               *)
(***************************************************************************)
MemsetStep ==
    /\ AtInstruction({"call"})
    /\ IsMemset(InsAtPc.callee)
    /\ vars' # vars
    /\ phase' # "panic"
    => StoredThrough(InsAtPc.ops[1], get_type_of_operand(Cur, InsAtPc.ops[2]).t)
ControlledMemsetsTaint(S) ==
    \A f \in Analysed(S) :
        \A b \in DOMAIN get_func_by_name(S, f).blocks :
            \A ins \in Range(get_func_by_name(S, f).blocks[b].instrs) :
                /\ ins.op = "call"
                /\ IsMemset(ins.callee)
                /\ CtrlDepOnTainted(S, f, get_func_by_name(S, f).blocks[b].name)
                => PointeeTainted(S, f, ins.ops[1])
\* C24: a call of a function whose name begins with llvm.memset updates the
\* pointee cell of the destination pointer with the value operand's type,
\* and with the tainted upgrade of that type when the call's block is
\* control-dependent on a block with a tainted terminator.
C24_MemsetLikeStore ==
    [][MemsetStep]_vars /\ [](Done => ControlledMemsetsTaint(Cur))

(***************************************************************************)
(* C25  Load through a tainted pointer.  With                              *)
(* dereferencing_tainted_ptr_gives_tainted a Load through a tainted        *)
(* pointer taints the shared cell and its result; without it, and through  *)
(* an untainted pointer, the Load leaves the cells alone and yields the    *)
(* cell's type.                                                            *)
(***************************************************************************)
LoadAddr == taint_map[cur_fn][InsAtPc.ops[1]]
\* every holder of the cell of the address sees a tainted pointee afterwards
HoldersSeeTaint ==
    /\ \A f \in DOMAIN taint_map : \A v \in DOMAIN taint_map[f] :
            taint_map[f][v].k = "ptr" /\ taint_map[f][v].c = LoadAddr.c
            => View([cells |-> cells'], taint_map'[f][v]).p
    /\ \A g \in DOMAIN fn_summaries : \A i \in DOMAIN fn_summaries[g].params :
            fn_summaries[g].params[i].k = "ptr" /\ fn_summaries[g].params[i].c = LoadAddr.c
            => View([cells |-> cells'], fn_summaries'[g].params[i]).p
\* the result variable holds the join of what it held and `tainted`
ResultJoined(tainted) ==
    /\ InsAtPc.dst \in DOMAIN taint_map'[cur_fn]
    /\ taint_map'[cur_fn][InsAtPc.dst].t =
            (\/ tainted
             \/ /\ InsAtPc.dst \in DOMAIN taint_map[cur_fn]
                /\ taint_map[cur_fn][InsAtPc.dst].t)
LoadStep ==
    AtInstruction({"load"}) /\ vars' # vars /\ phase' # "panic" =>
        IF LoadAddr.t /\ input.deref
        THEN HoldersSeeTaint /\ ResultJoined(TRUE)
        ELSE cells' = cells /\ ResultJoined(cells[LoadAddr.c].t)
\* C25: with dereferencing_tainted_ptr_gives_tainted set, a Load whose address
\* is a tainted pointer upgrades the shared pointee cell to tainted and its
\* result is tainted, so that every other holder of the cell sees the
\* upgrade; with the option unset the cell is left unchanged and the result
\* is the cell's current type; a Load through an untainted pointer never
\* modifies the cell.
C25_LoadThroughTaintedPointer == [][LoadStep]_vars
\* %q is seeded tainted with an untainted pointee and the option is set: the
\* load tainted the cell, which f's summary parameter shares, and %r
C25_Witness ==
    /\ Running(<<FnDeref>>)
    /\ input.deref
    /\ input.seeds = {"q"}
    /\ Done
    /\ PointeeTainted(Cur, "f", "q")
    /\ taint_map["f"]["r"].t
    /\ View(Cur, fn_summaries["f"].params[1]).p

(***************************************************************************)
(* C26  Terminator marks.                                                  *)
(***************************************************************************)
MarkingOps == {"condbr", "switch", "indirectbr", "ret"}
BranchOps == {"condbr", "switch", "indirectbr"}
TermAtPc == CurBlock(Cur).term
MarkedBefore(f, b) == f \in DOMAIN tainted_terminators /\ b \in tainted_terminators[f]
MarkedAfter(f, b) == f \in DOMAIN tainted_terminators' /\ b \in tainted_terminators'[f]
\* the step processes a marking terminator whose operand is tainted
TaintedOperandHere ==
    /\ AtTerminator(MarkingOps)
    /\ TermAtPc.ops # <<>>
    /\ OpTainted(Cur, cur_fn, TermAtPc.ops[1])
NewlyMarked ==
    /\ ~MarkedBefore(cur_fn, CurBlock(Cur).name)
    /\ MarkedAfter(cur_fn, CurBlock(Cur).name)
\* a mark appears only on the block whose terminator is being processed, and
\* only for a tainted operand; it appears whenever that is the case
MarksFromTaintedOperands ==
    /\ \A f \in DOMAIN tainted_terminators' : \A b \in tainted_terminators'[f] :
            ~MarkedBefore(f, b) =>
                f = cur_fn /\ b = CurBlock(Cur).name /\ TaintedOperandHere
    /\ TaintedOperandHere /\ vars' # vars /\ phase' # "panic" =>
            MarkedAfter(cur_fn, CurBlock(Cur).name)
\* Br and Unreachable mark nothing and report no change
PlainTerminatorsSilent ==
    AtTerminator({"br", "unreachable"}) /\ vars' # vars =>
        /\ tainted_terminators' = tainted_terminators
        /\ changed' = changed
        /\ phase' # "panic"
\* what process_terminator returns for the terminator being processed
Reported == process_terminator(Cur, TermAtPc).v
\* a branching terminator reports a change exactly when its mark is new
BranchReportsNewMark ==
    AtTerminator(BranchOps) /\ vars' # vars /\ phase' # "panic" =>
        /\ Reported = NewlyMarked
        /\ changed' = (changed \/ NewlyMarked)
\* a Ret reports a change exactly when its mark is new or the summary return
\* has changed
RetReportsMarkOrSummary ==
    AtTerminator({"ret"}) /\ vars' # vars /\ phase' # "panic" =>
        /\ Reported = (NewlyMarked \/ RetViewAfter # RetViewBefore)
        /\ changed' = (changed \/ Reported)
\* whatever the terminator, a change is reported only for a new mark
ReportsOnlyNewMark ==
    AtTerminator(MarkingOps) /\ vars' # vars /\ phase' # "panic" =>
        (Reported => NewlyMarked)
MarksKept ==
    \A f \in DOMAIN tainted_terminators : \A b \in tainted_terminators[f] :
        MarkedAfter(f, b)
MarkStep ==
    /\ MarksFromTaintedOperands
    /\ PlainTerminatorsSilent
    /\ BranchReportsNewMark
    /\ RetReportsMarkOrSummary
    /\ MarksKept
\* C26: a block's terminator becomes marked exactly in a step that processes
\* it as a CondBr, Switch, IndirectBr or Ret with a tainted operand; Br and
\* Unreachable mark nothing and report no change; a CondBr, Switch or
\* IndirectBr reports a change exactly when its mark is newly set, a Ret
\* exactly when its mark is newly set or the summary return has changed; a
\* mark once set is never cleared.
C26_TerminatorMarks == [][MarkStep]_vars
\* C26 as stated: moreover no terminator, a Ret included, reports a change
\* unless its mark is newly set.
C26_ReportOnlyNewMark == [][MarkStep /\ ReportsOnlyNewMark]_vars
\* %c and %x are seeded: the Switch on %c, the IndirectBr on %a and the Ret of
\* %c are marked, the Unreachable is not
C26_Witness ==
    /\ Running(<<FnTerms>>)
    /\ input.seeds = {"c", "x"}
    /\ Done
    /\ tainted_terminators["f"] = {"A", "B", "D"}

(***************************************************************************)
(* C27  Pops of an external function under the two Ignore policies.        *)
(***************************************************************************)
ReturnsTainted == input.policy = "IgnoreAndReturnTainted"
ReturnsUntainted == input.policy = "IgnoreAndReturnUntainted"
\* the summary return of the popped name is present and untainted
RetUntaintedBefore ==
    fn_summaries[popped'].ret # NoType /\ ~fn_summaries[popped'].ret.t
\* the pop touches nothing but the summary return of the popped name
OnlyRetTouched ==
    /\ PopFrame
    /\ tainted_terminators' = tainted_terminators
    /\ worklist' = worklist \ {popped'}
    /\ iter_ctr' = iter_ctr
    /\ phase' = "endpop"
TaintedPop ==
    PopsExternal /\ ReturnsTainted /\ phase' # "panic" =>
        /\ popped' \in DOMAIN fn_summaries
        /\ OnlyRetTouched
        /\ fn_summaries[popped'].ret # NoType => fn_summaries'[popped'].ret.t
        /\ fn_summaries[popped'].ret = NoType => fn_summaries'[popped'].ret = NoType
        /\ changed' = RetUntaintedBefore
UntaintedPop ==
    PopsExternal /\ ReturnsUntainted =>
        /\ OnlyRetTouched
        /\ fn_summaries' = fn_summaries
        /\ changed' = FALSE
\* the end of an iteration that popped an external name and saw no change
\* does not put the name back
IdlePopNotRequeued ==
    /\ phase = "endpop"
    /\ popped \notin FnNames(Cur)
    /\ ~changed
    /\ vars' # vars
    => worklist' = worklist /\ popped \notin worklist' /\ iter_ctr' = iter_ctr
ExternalPopStep == TaintedPop /\ UntaintedPop /\ IdlePopNotRequeued
\* an external name never reports a change on two pops, consecutive or not
ExternalChangesOnce ==
    (ReturnsTainted \/ ReturnsUntainted) /\ streak.fn # "" /\ streak.fn \notin FnNames(Cur)
        => /\ streak.n <= 1
           /\ ReturnsTainted
           /\ fn_summaries[streak.fn].ret.t
\* C27: under IgnoreAndReturnTainted the pop of an external function taints
\* its summary return and reports a change exactly if the return was
\* untainted; a pop that finds it tainted reports no change, the name is
\* not put back on the worklist, and the external function never reports a
\* change on two consecutive pops; under IgnoreAndReturnUntainted a pop
\* changes nothing and reports no change.
C27_ExternalPops == [][ExternalPopStep]_vars /\ []ExternalChangesOnce
\* a second pop of the external function found its return tainted and
\* reported no change
C27_Witness ==
    /\ ReturnsTainted
    /\ phase = "endpop"
    /\ popped \notin FnNames(Cur)
    /\ fn_summaries[popped].ret.t
    /\ ~changed
    /\ iter_ctr >= 1

(***************************************************************************)
(* C28  Indirect call.                                                     *)
(***************************************************************************)
AtIndirectCall == AtInstruction({"icall"})
\* the defined functions of the type the called pointer points to
MatchingFns ==
    { g \in FnNames(Cur) : HasType(get_func_by_name(Cur, g), SigOfCall(CurFunc(Cur), CallAtPc)) }
TargetParamBefore(g, j) ==
    IF g \in DOMAIN fn_summaries
    THEN View(Cur, fn_summaries[g].params[j])
    ELSE [ArgView(j) EXCEPT !.t = FALSE, !.p = FALSE]
TargetParamAfter(g, j) == View([cells |-> cells'], fn_summaries'[g].params[j])
TargetJoined(g) ==
    /\ g \in DOMAIN fn_summaries'
    /\ DOMAIN fn_summaries'[g].params = DOMAIN CallAtPc.ops
    /\ \A j \in DOMAIN CallAtPc.ops :
        /\ TargetParamAfter(g, j).k = TargetParamBefore(g, j).k
        /\ TargetParamAfter(g, j).t = (TargetParamBefore(g, j).t \/ ArgView(j).t)
        /\ TargetParamAfter(g, j).p = (TargetParamBefore(g, j).p \/ ArgView(j).p)
    /\ g \in DOMAIN fn_summaries => fn_summaries'[g].ret = fn_summaries[g].ret
TargetUpgraded(g) ==
    \E j \in DOMAIN CallAtPc.ops : TargetParamAfter(g, j) # TargetParamBefore(g, j)
\* what the call of target g puts on the worklist
TargetQueued(g) ==
    IF TargetUpgraded(g) THEN callers(Cur, g) \cup {g}
    ELSE IF g \notin DOMAIN fn_summaries THEN {g}
    ELSE {}
\* the destination holds the join of what it held and a value of tag `tainted`
DestJoined(tainted) ==
    CallAtPc.dst # "" =>
        /\ CallAtPc.dst \in DOMAIN taint_map'[cur_fn]
        /\ taint_map'[cur_fn][CallAtPc.dst].t =
                (\/ tainted
                 \/ /\ CallAtPc.dst \in DOMAIN taint_map[cur_fn]
                    /\ taint_map[cur_fn][CallAtPc.dst].t)
TargetedCall ==
    /\ \A g \in MatchingFns : TargetJoined(g)
    /\ worklist' = worklist \cup UNION { TargetQueued(g) : g \in MatchingFns }
    /\ DestJoined(\E g \in MatchingFns : fn_summaries'[g].ret.t)
    /\ DOMAIN fn_summaries' = DOMAIN fn_summaries \cup MatchingFns
\* the tag the external-function policy gives the result of the call
PolicyTaints ==
    \/ input.policy = "IgnoreAndReturnTainted"
    \/ /\ input.policy = "PropagateTaintShallow"
       /\ \E j \in DOMAIN CallAtPc.ops : ArgView(j).t
UntargetedCall ==
    /\ input.policy \in {"IgnoreAndReturnUntainted", "IgnoreAndReturnTainted",
                         "PropagateTaintShallow"}
    /\ DestJoined(PolicyTaints)
    /\ fn_summaries' = fn_summaries
    /\ worklist' = worklist
IndirectStep ==
    AtIndirectCall /\ vars' # vars =>
        IF MatchingFns = {}
        THEN phase' # "panic" => UntargetedCall
        ELSE phase' # "panic" /\ TargetedCall
\* C28: a call through a function pointer gives every defined function of the
\* pointer's target type the summary update of a direct call (the arguments
\* joined into its parameters, its callers and itself on the worklist when a
\* parameter rose, an untainted summary created and the function put on the
\* worklist when it had none) and joins the return type of each of them into
\* the destination; with no such function the external-function policy
\* decides the destination from the arguments.
C28_IndirectCall == [][IndirectStep]_vars
\* the call through the pointer reached both g and g2 with the tainted %t,
\* and the destination took g's tainted return
C28_Witness ==
    /\ Running(<<FnIndirect, FnRetArg, FnConst("g2")>>)
    /\ Done
    /\ View(Cur, fn_summaries["g"].params[1]).t
    /\ View(Cur, fn_summaries["g2"].params[1]).t
    /\ ~fn_summaries["g2"].ret.t
    /\ taint_map["f"]["r"].t

(***************************************************************************)
(* C29  AtomicRMW.                                                         *)
(***************************************************************************)
\* the tag of what a load through the address of the instruction at pc reads
LoadedBefore == cells[LoadAddr.c].t \/ (LoadAddr.t /\ input.deref)
RmwStep ==
    AtInstruction({"atomicrmw"}) /\ vars' # vars /\ phase' # "panic" =>
        /\ PointeeAfter(InsAtPc.ops[1]) =
                (\/ LoadedBefore
                 \/ get_type_of_operand(Cur, InsAtPc.ops[2]).t
                 \/ CtrlDepOnTainted(Cur, cur_fn, CurBlock(Cur).name))
        /\ ResultJoined(LoadedBefore)
\* when compute() has returned, the cell of every AtomicRMW holds at least
\* the value (tainted, under a tainted terminator) and the result variable
\* holds at least the cell's type
RmwSettled(S) ==
    \A f \in Analysed(S) :
        \A b \in DOMAIN get_func_by_name(S, f).blocks :
            \A ins \in Range(get_func_by_name(S, f).blocks[b].instrs) :
                ins.op = "atomicrmw" =>
                    /\ \/ OpTainted(S, f, ins.ops[2])
                       \/ CtrlDepOnTainted(S, f, get_func_by_name(S, f).blocks[b].name)
                       => PointeeTainted(S, f, ins.ops[1])
                    /\ PointeeTainted(S, f, ins.ops[1]) => OpTainted(S, f, ins.dst)
\* C29: an AtomicRMW reads the loaded type from the address's cell, stores
\* join(loaded, value) through the address by the rules of Store (tainted
\* when the block is control-dependent on a tainted terminator) and updates
\* the result variable with the loaded type as read before the store; when
\* compute() has returned the cell is at least join(loaded, value) and the
\* result variable is at least the cell's type.
C29_AtomicRMW == [][RmwStep]_vars /\ [](Done => RmwSettled(Cur))
\* g's argument became tainted after g's first pass: the AtomicRMW tainted
\* the cell while its result took the untainted type read before, and a
\* later pass raised the result
C29_Witness ==
    /\ Running(<<FnCallG, FnRmw>>)
    /\ Done
    /\ OpTainted(Cur, "g", "a")
    /\ PointeeTainted(Cur, "g", "p")
    /\ OpTainted(Cur, "g", "r")
    /\ upgrades[<<<<"var", "g", "r">>, "tag">>] = 2

(***************************************************************************)
(* C30  Select.                                                            *)
(***************************************************************************)
SelectCond == get_type_of_operand(Cur, InsAtPc.ops[1])
SelectTrue == View(Cur, get_type_of_operand(Cur, InsAtPc.ops[2]))
SelectFalse == View(Cur, get_type_of_operand(Cur, InsAtPc.ops[3]))
DstViewAfter == View([cells |-> cells'], taint_map'[cur_fn][InsAtPc.dst])
\* the result variable was updated with a type of view w: it holds w, joined
\* with what the variable held
UpdatedWith(w) ==
    /\ phase' # "panic"
    /\ InsAtPc.dst \in DOMAIN taint_map'[cur_fn]
    /\ IF InsAtPc.dst \in DOMAIN taint_map[cur_fn]
       THEN /\ DstViewAfter.k = w.k
            /\ DstViewAfter.t = (w.t \/ View(Cur, taint_map[cur_fn][InsAtPc.dst]).t)
            /\ DstViewAfter.p = (w.p \/ View(Cur, taint_map[cur_fn][InsAtPc.dst]).p)
       ELSE DstViewAfter = w
SelectStep ==
    AtInstruction({"select"}) /\ vars' # vars =>
        IF SelectCond.t
        THEN UpdatedWith(View(Cur, TaintedValue))
        ELSE UpdatedWith([k |-> SelectTrue.k,
                          t |-> SelectTrue.t \/ SelectFalse.t,
                          p |-> SelectTrue.p \/ SelectFalse.p])
\* C30: a Select whose condition is tainted updates the result variable with
\* TaintedValue; a Select whose condition is untainted updates it with the
\* join of the types of its two value operands; both whatever the shape of
\* the value operands.
C30_Select == [][SelectStep]_vars

(***************************************************************************)
(* C31  No-op instructions.                                                *)
(***************************************************************************)
AtNoop ==
    \/ AtInstruction({"fence"})
    \/ AtInstruction({"call"}) /\ IgnoredIntrinsic(InsAtPc.callee)
NoopStep ==
    AtNoop /\ vars' # vars =>
        /\ taint_map' = taint_map
        /\ cells' = cells
        /\ fn_summaries' = fn_summaries
        /\ InsAtPc.op = "call" => InsAtPc.callee \notin DOMAIN fn_summaries'
        /\ tainted_terminators' = tainted_terminators
        /\ worklist' = worklist
        /\ changed' = changed
        /\ iter_ctr' = iter_ctr
        /\ phase' = "pass" /\ pc' = pc + 1
\* C31: processing a Fence, or a call of an intrinsic of the families
\* llvm.lifetime, llvm.invariant, llvm.launder.invariant,
\* llvm.strip.invariant and llvm.dbg, leaves every variable map, pointee
\* cell, summary, terminator mark and the worklist as they were, creates no
\* summary for the intrinsic and reports no change, whatever the taint of
\* the arguments.
C31_NoopInstructions == [][NoopStep]_vars
\* the last ignored call of f, with tainted %q and %x, has been passed: the
\* pass so far reported no change, no summary but f's exists and %l has no type
C31_Witness ==
    /\ Running(<<FnNoops>>)
    /\ input.seeds = {"x", "q"}
    /\ phase = "pass"
    /\ pc = 8
    /\ iter_ctr = 1
    /\ ~changed
    /\ OpTainted(Cur, "f", "x") /\ OpTainted(Cur, "f", "q")
    /\ DOMAIN fn_summaries = {"f"}
    /\ "l" \notin DOMAIN taint_map["f"]

(***************************************************************************)
(* C32  Deferred inter-procedural effects.                                 *)
(***************************************************************************)
\* the variables of g and their tags are what they were: no entry inserted,
\* none replaced (a pointee seen through an entry is a shared cell)
EntriesKept(g) ==
    /\ g \in DOMAIN taint_map'
    /\ DOMAIN taint_map'[g] = DOMAIN taint_map[g]
    /\ \A v \in DOMAIN taint_map[g] :
        /\ taint_map'[g][v].k = taint_map[g][v].k
        /\ taint_map'[g][v].t = taint_map[g][v].t
MarksOfKept(g) ==
    g \in DOMAIN tainted_terminators =>
        g \in DOMAIN tainted_terminators' /\ tainted_terminators'[g] = tainted_terminators[g]
\* a step touches the variables and the marks of the function being processed only
DeferredStep ==
    /\ \A g \in DOMAIN taint_map : g # cur_fn' => EntriesKept(g) /\ MarksOfKept(g)
    /\ \A g \in DOMAIN taint_map' : g \notin DOMAIN taint_map => g = cur_fn'
    /\ phase = "pass" => cur_fn' = cur_fn
    /\ phase = "loop" /\ phase' = "pass" => cur_fn' = popped'
\* C32: while a pass over function F runs, no entry is inserted into or
\* replaced in the variable map of another function G and no terminator
\* mark of G changes: the variables of G change only in the steps that
\* process G after a pop of G.
C32_DeferredEffects == [][DeferredStep]_vars
\* g was analysed first; the pass over f has tainted g's summary parameter
\* and g's variable %a is still untainted
C32_Witness ==
    /\ Running(<<FnCallG, FnRetArg>>)
    /\ phase = "pass"
    /\ cur_fn = "f"
    /\ "g" \in DOMAIN taint_map
    /\ fn_summaries["g"].params[1].t
    /\ ~taint_map["g"]["a"].t

(***************************************************************************)
(* C33  External functions on the worklist have a summary.                 *)
(***************************************************************************)
ExternalsQueued == worklist \ FnNames(Cur)
\* C33: every name on the worklist that is not a defined function has a
\* summary, and so has the popped name while it is handled; compute() never
\* fails for an external function on the worklist without a summary.
C33_QueuedExternalsHaveSummaries ==
    /\ ExternalsQueued \subseteq DOMAIN fn_summaries
    /\ phase = "endpop" /\ popped \notin FnNames(Cur) => popped \in DOMAIN fn_summaries
    /\ diag # "no summary"
\* the external function h is on the worklist, with the summary the call made
C33_Witness ==
    /\ Running(<<FnCallExt>>)
    /\ phase = "loop"
    /\ "h" \in ExternalsQueued
    /\ "h" \in DOMAIN fn_summaries

(***************************************************************************)
(* C34  Lazy summaries are followed by analysis.                           *)
(***************************************************************************)
\* the functions the call at pc calls: the named callee, or the candidate
\* targets of the pointer
CalleesAtPc ==
    IF AtIndirectCall THEN MatchingFns
    ELSE IF AtDirectCall THEN {CallAtPc.callee}
    ELSE {}
\* the summary of g is the untainted one with the arguments joined in
FreshSummary(g) ==
    /\ g \in DOMAIN fn_summaries'
    /\ g \in worklist'
    /\ fn_summaries'[g].ret # NoType => ~View([cells |-> cells'], fn_summaries'[g].ret).t
    /\ DOMAIN fn_summaries'[g].params = DOMAIN CallAtPc.ops
    /\ \A j \in DOMAIN CallAtPc.ops :
            View([cells |-> cells'], fn_summaries'[g].params[j]).t = ArgView(j).t
LazySummaryStep ==
    phase = "pass" /\ vars' # vars /\ phase' # "panic" =>
        /\ \A g \in CalleesAtPc : g \notin DOMAIN fn_summaries => FreshSummary(g)
        /\ DOMAIN fn_summaries' = DOMAIN fn_summaries \cup CalleesAtPc
\* C34: a call that finds no summary for its callee creates the wholly
\* untainted summary (into which it joins its arguments) and puts the callee
\* on the worklist in the same step; every name with a summary is on the
\* worklist or has been popped since the summary was created, so that when
\* compute() has returned every function with a summary has been popped and
\* handled after its summary was created.
C34_LazySummariesAnalysed ==
    /\ [][LazySummaryStep]_vars
    /\ [](phase # "panic" => DOMAIN fn_summaries \subseteq worklist \cup handled)
    /\ [](Done => DOMAIN fn_summaries \subseteq handled)
\* nothing is seeded: h got its summary at f's call and was popped
\* afterwards, though no summary slot ever rose
C34_Witness ==
    /\ Running(<<FnCallExt>>)
    /\ input.seeds = {}
    /\ input.policy = "IgnoreAndReturnUntainted"
    /\ Done
    /\ handled = {"f", "h"}
    /\ DOMAIN fn_summaries = {"f", "h"}

(***************************************************************************)
(* C35  Call-site consistency when compute() has returned.                 *)
(***************************************************************************)
\* the calls by name of function f that have a destination and a summarised callee
SummarisedCalls(S, f) ==
    { ins \in InstrsOf(S, f) :
        /\ ins.op = "call"
        /\ ins.dst # ""
        /\ ins.callee \in DOMAIN S.fn_summaries
        /\ S.fn_summaries[ins.callee].ret # NoType }
DestCovers(S, f, ins) ==
    /\ ins.dst \in DOMAIN S.taint_map[f]
    /\ Leq(View(S, S.fn_summaries[ins.callee].ret), View(S, S.taint_map[f][ins.dst]))
CallSitesConsistent(S) ==
    \A f \in Analysed(S) : \A ins \in SummarisedCalls(S, f) : DestCovers(S, f, ins)
\* C35 (as the code has it violated): when compute() has returned, the
\* destination of every call in an analysed function, of a defined or of an
\* external callee, holds at least the callee's summary return type.
C35_CallSitesConsistent == Done => CallSitesConsistent(Cur)
\* the same for the calls of defined callees only
C35_DefinedCallSitesConsistent ==
    Done => \A f \in Analysed(Cur) : \A ins \in SummarisedCalls(Cur, f) :
                IsDefined(Cur, ins.callee) => DestCovers(Cur, f, ins)

(***************************************************************************)
(* C36  Shape stability.                                                   *)
(***************************************************************************)
\* the shape of the types of LLVM type llty
ShapeOf(llty) == from_llvm_type(Cur, llty).v.k
\* the Alloca or Select at pc gives its result a type of the shape of the
\* result's LLVM type, and the update of the result does not fail
ShapeStep ==
    /\ AtInstruction({"alloca", "select"})
    /\ ~Missing(Cur, InsAtPc.ops)
    /\ vars' # vars
    => /\ phase' # "panic"
       /\ InsAtPc.dst \in DOMAIN taint_map'[cur_fn]
       /\ taint_map'[cur_fn][InsAtPc.dst].k = ShapeOf(InsAtPc.ty)
\* C36 (as the code has it violated): the type an Alloca or a Select gives to
\* update_var has the shape of the result on every pass, also when the count
\* or the condition is tainted, on the first pass or on a later one, so that
\* the join in update_var does not fail with a shape mismatch.
C36_ShapeStable == [][ShapeStep]_vars

(***************************************************************************)
(* C37  Summary arity.                                                     *)
(***************************************************************************)
\* the calls by name of g in the analysed modules
CallSitesOf(S, g) ==
    UNION { { ins \in AllInstrs(TheFns(S)[j]) : ins.op = "call" /\ ins.callee = g } :
            j \in DOMAIN TheFns(S) }
ArityHolds(S, g) ==
    /\ IsDefined(S, g) =>
            Len(S.fn_summaries[g].params) = Len(get_func_by_name(S, g).params)
    /\ \A ins \in CallSitesOf(S, g) : Len(S.fn_summaries[g].params) = Len(ins.ops)
\* C37 (as the code has it violated): in every reachable state the summary
\* of a function has as many parameter slots as the function declares
\* parameters and as every call of it passes arguments, and neither the
\* parameter mirroring nor update_params meets lists of different lengths.
C37_SummaryArity ==
    /\ \A g \in DOMAIN fn_summaries : ArityHolds(Cur, g)
    /\ diag # "zip_eq"
\* the same, of the functions that are called with as many arguments as they
\* declare parameters
C37_FixedArity ==
    ~Running(<<FnCallVariadic, FnRetArg>>) =>
        /\ \A g \in DOMAIN fn_summaries : ArityHolds(Cur, g)
        /\ diag # "zip_eq"

(***************************************************************************)
(* C38  Aliasing across BitCast.                                           *)
(***************************************************************************)
\* the pointer-to-pointer casts of f: source and result are pointers
PtrCasts(S, f) ==
    { ins \in InstrsOf(S, f) :
        /\ ins.op = "bitcast"
        /\ ins.dst \in DOMAIN S.taint_map[f]
        /\ S.taint_map[f][ins.dst].k = "ptr"
        /\ get_type_of_operand([S EXCEPT !.cur_fn = f], ins.ops[1]).k = "ptr" }
\* what is stored through the source is loaded through the result
SourceReachesResult(S, f, ins) ==
    PointeeTainted(S, f, ins.ops[1]) => PointeeTainted(S, f, ins.dst)
\* what is stored through the result is loaded through the source
ResultReachesSource(S, f, ins) ==
    PointeeTainted(S, f, ins.dst) => PointeeTainted(S, f, ins.ops[1])
\* a load takes the taint of the pointee it reads
LoadsSeePointee(S, f) ==
    \A ins \in InstrsOf(S, f) :
        (ins.op = "load" /\ PointeeTainted(S, f, ins.ops[1])) =>
            VarTainted(S.taint_map, f, ins.dst)
\* C38 (as the code has it violated): at the fixpoint the pointee of the
\* result of a pointer-to-pointer BitCast and the pointee of its source are
\* tainted together, so a tainted Store through either is seen by a Load
\* through the other.
C38_BitCastAliases ==
    Done => \A f \in Analysed(Cur) :
                /\ LoadsSeePointee(Cur, f)
                /\ \A ins \in PtrCasts(Cur, f) :
                        /\ SourceReachesResult(Cur, f, ins)
                        /\ ResultReachesSource(Cur, f, ins)
\* the direction the code provides: a Store through the source is seen by a
\* Load through the result
C38_SourceToResult ==
    Done => \A f \in Analysed(Cur) :
                /\ LoadsSeePointee(Cur, f)
                /\ \A ins \in PtrCasts(Cur, f) : SourceReachesResult(Cur, f, ins)

(***************************************************************************)
(* C39  InsertValue carries the inserted taint.                            *)
(***************************************************************************)
\* the element seen through the aggregate `agg` of the current function
ElementBefore(agg) == View(Cur, taint_map[cur_fn][agg]).p
ElementAfter(agg) == View([cells |-> cells'], taint_map'[cur_fn][agg]).p
\* an InsertValue of a tainted element has been processed
InsertStep ==
    (/\ AtInstruction({"insertvalue"})
     /\ OpTainted(Cur, cur_fn, InsAtPc.ops[2])
     /\ vars' # vars) =>
        /\ phase' = "pass"
        /\ InsAtPc.dst \in DOMAIN taint_map'[cur_fn]
        /\ taint_map'[cur_fn][InsAtPc.dst].k = "arr"
        /\ ElementAfter(InsAtPc.dst)
\* an ExtractValue from an aggregate with a tainted element has been processed
ExtractStep ==
    (/\ AtInstruction({"extractvalue"})
     /\ InsAtPc.ops[1] \in DOMAIN taint_map[cur_fn]
     /\ ElementBefore(InsAtPc.ops[1])
     /\ vars' # vars) =>
        /\ phase' = "pass"
        /\ VarTainted(taint_map', cur_fn, InsAtPc.dst)
====
